---- MODULE Spec2Model ----
(***************************************************************************)
(* A model of the birt-consumer row-to-document pipeline: the file         *)
(* structure scan, chunked reading, per-row record construction, coercion  *)
(* and validation, and the batched writes to the document store.           *)
(*                                                                         *)
(* Python values are tagged records: [str |-> <<chars>>], [int |-> n],     *)
(* [flt |-> <<m, e>>] (the decimal m * 10^-e), [nan |-> TRUE],             *)
(* [inf |-> sign], [bool |-> b], [date |-> <<year, dayOfYear>>],           *)
(* [dict |-> f], [list |-> s] and None.  Strings are sequences of          *)
(* one-character strings so that strip(), lower(), int() and float() are   *)
(* computed, not assumed.                                                  *)
(*                                                                         *)
(* Spec is process() over small files of the three contracts, run again    *)
(* on the same store; SpecCreate is process() over one-row Checklist files *)
(* with a wider choice of coordinate and date cells; SpecUpsert is         *)
(* bulk_upsert executed twice on one record list; SpecCoerce is            *)
(* set_field_by_schema applied to a raw cell and again to the stored       *)
(* value; SpecEod is process() under a contract that declares an           *)
(* end-of-data terminator; SpecIdent is process() over rows that differ in *)
(* their identifier cells; SpecChunk is process() with one row to a chunk  *)
(* and with the whole file in one chunk.                                   *)
(***************************************************************************)
EXTENDS Integers, Sequences, FiniteSets, TLC

VARIABLES
    provider_type,     \* the contract selected for the run: "Taxonomy", "Checklist" or "Core"
    infile,            \* the rows of the input file, each a sequence of str cells
    CHUNK_SIZE,        \* settings._CHUNK_SIZE, scaled down to a small positive number
    pc,                \* position of process(): "start", "read", "rows", "resume", "done",
                       \* "aborted"; of the two bulk_upsert executions: "first", "second", "end"
    header_row,        \* BirtFileReader.header_row
    end_of_data,       \* BirtFileReader.end_of_data (None before the scan)
    row_number,        \* number of rows the main-pass reader has handed to gen_chunks
    chunk,             \* the chunk list of gen_chunks: <<row_number, row>> pairs
    chunk_pos,         \* number of rows of the yielded chunk syncprocess_chunk has processed
    valid_records,     \* syncprocess_chunk's valid accumulator
    invalid_records,   \* syncprocess_chunk's invalid accumulator
    db,                \* the document store: target collections by _id, invalidRecords as a list
    utcnow,            \* the clock read by InvalidRecord.__init__
    exc,               \* the exception that ended the run ("none" while it runs)
    row_record,        \* the record process_row built last (None before the first)
    log                \* history of the run, for stating the properties

vars == <<provider_type, infile, CHUNK_SIZE, pc, header_row, end_of_data, row_number,
          chunk, chunk_pos, valid_records, invalid_records, db, utcnow, exc, row_record, log>>

-----------------------------------------------------------------------------
(* Bounds of the model *)

\* the largest number of data rows of an input file
MaxDataRows == 2

\* the largest chunk size tried
MaxChunkSize == 2

\* the largest number of process() runs over the same file
MaxRuns == 2

\* the largest number of batch writes that fail in one behaviour
MaxWriteErrors == 1

\* the longest record list handed to bulk_upsert on its own
MaxBatch == 2

-----------------------------------------------------------------------------
(* Names: canonical field names, type names and literals, as strings *)

\* the spelling of every name the maps, the schemas and the code write
nm ==
    [sci_name |-> <<"s", "c", "i", "_", "n", "a", "m", "e">>,
     taxon_order |-> <<"t", "a", "x", "o", "n", "_", "o", "r", "d", "e", "r">>,
     primary_com_name |-> <<"p", "r", "i", "m", "a", "r", "y", "_", "c", "o", "m", "_", "n", "a", "m", "e">>,
     category |-> <<"c", "a", "t", "e", "g", "o", "r", "y">>,
     order_name |-> <<"o", "r", "d", "e", "r", "_", "n", "a", "m", "e">>,
     family_name |-> <<"f", "a", "m", "i", "l", "y", "_", "n", "a", "m", "e">>,
     subfamily_name |-> <<"s", "u", "b", "f", "a", "m", "i", "l", "y", "_", "n", "a", "m", "e">>,
     genus_name |-> <<"g", "e", "n", "u", "s", "_", "n", "a", "m", "e">>,
     species_name |-> <<"s", "p", "e", "c", "i", "e", "s", "_", "n", "a", "m", "e">>,
     sampling_event_id |-> <<"s", "a", "m", "p", "l", "i", "n", "g", "_", "e", "v", "e", "n", "t", "_", "i", "d">>,
     loc_id |-> <<"l", "o", "c", "_", "i", "d">>,
     latitude |-> <<"l", "a", "t", "i", "t", "u", "d", "e">>,
     longitude |-> <<"l", "o", "n", "g", "i", "t", "u", "d", "e">>,
     year |-> <<"y", "e", "a", "r">>,
     month |-> <<"m", "o", "n", "t", "h">>,
     day |-> <<"d", "a", "y">>,
     time |-> <<"t", "i", "m", "e">>,
     country |-> <<"c", "o", "u", "n", "t", "r", "y">>,
     state_province |-> <<"s", "t", "a", "t", "e", "_", "p", "r", "o", "v", "i", "n", "c", "e">>,
     county |-> <<"c", "o", "u", "n", "t", "y">>,
     count_type |-> <<"c", "o", "u", "n", "t", "_", "t", "y", "p", "e">>,
     effort_hrs |-> <<"e", "f", "f", "o", "r", "t", "_", "h", "r", "s">>,
     effort_distance_km |-> <<"e", "f", "f", "o", "r", "t", "_", "d", "i", "s", "t", "a", "n", "c", "e", "_", "k", "m">>,
     effort_area_ha |-> <<"e", "f", "f", "o", "r", "t", "_", "a", "r", "e", "a", "_", "h", "a">>,
     observer_id |-> <<"o", "b", "s", "e", "r", "v", "e", "r", "_", "i", "d">>,
     number_observers |-> <<"n", "u", "m", "b", "e", "r", "_", "o", "b", "s", "e", "r", "v", "e", "r", "s">>,
     group_id |-> <<"g", "r", "o", "u", "p", "_", "i", "d">>,
     primary_checklist_flag |-> <<"p", "r", "i", "m", "a", "r", "y", "_", "c", "h", "e", "c", "k", "l", "i", "s", "t", "_", "f", "l", "a", "g">>,
     pop00_sqmi |-> <<"p", "o", "p", "0", "0", "_", "s", "q", "m", "i">>,
     housing_density |-> <<"h", "o", "u", "s", "i", "n", "g", "_", "d", "e", "n", "s", "i", "t", "y">>,
     housing_percent_vacant |-> <<"h", "o", "u", "s", "i", "n", "g", "_", "p", "e", "r", "c", "e", "n", "t", "_", "v", "a", "c", "a", "n", "t">>,
     elev_gt |-> <<"e", "l", "e", "v", "_", "g", "t">>,
     elev_ned |-> <<"e", "l", "e", "v", "_", "n", "e", "d">>,
     bcr |-> <<"b", "c", "r">>,
     bailey_ecoregion |-> <<"b", "a", "i", "l", "e", "y", "_", "e", "c", "o", "r", "e", "g", "i", "o", "n">>,
     omernik_l3_ecoregion |-> <<"o", "m", "e", "r", "n", "i", "k", "_", "l", "3", "_", "e", "c", "o", "r", "e", "g", "i", "o", "n">>,
     caus_temp_avg |-> <<"c", "a", "u", "s", "_", "t", "e", "m", "p", "_", "a", "v", "g">>,
     caus_temp_min |-> <<"c", "a", "u", "s", "_", "t", "e", "m", "p", "_", "m", "i", "n">>,
     caus_temp_max |-> <<"c", "a", "u", "s", "_", "t", "e", "m", "p", "_", "m", "a", "x">>,
     caus_prec |-> <<"c", "a", "u", "s", "_", "p", "r", "e", "c">>,
     caus_snow |-> <<"c", "a", "u", "s", "_", "s", "n", "o", "w">>,
     loc |-> <<"l", "o", "c">>,
     date |-> <<"d", "a", "t", "e">>,
     type |-> <<"t", "y", "p", "e">>,
     coordinates |-> <<"c", "o", "o", "r", "d", "i", "n", "a", "t", "e", "s">>,
     Point |-> <<"P", "o", "i", "n", "t">>,
     Date |-> <<"D", "a", "t", "e">>,
     Errors |-> <<"E", "r", "r", "o", "r", "s">>,
     RecordType |-> <<"R", "e", "c", "o", "r", "d", "T", "y", "p", "e">>,
     RowNum |-> <<"R", "o", "w", "N", "u", "m">>,
     TaxonomyRecord |-> <<"T", "a", "x", "o", "n", "o", "m", "y", "R", "e", "c", "o", "r", "d">>,
     MigrationChecklistRecord |-> <<"M", "i", "g", "r", "a", "t", "i", "o", "n", "C", "h", "e", "c", "k", "l", "i", "s", "t", "R", "e", "c", "o", "r", "d">>,
     MigrationCoreRecord |-> <<"M", "i", "g", "r", "a", "t", "i", "o", "n", "C", "o", "r", "e", "R", "e", "c", "o", "r", "d">>,
     fields |-> <<"f", "i", "e", "l", "d", "s">>,
     nan |-> <<"n", "a", "n">>,
     inf |-> <<"i", "n", "f">>,
     infinity |-> <<"i", "n", "f", "i", "n", "i", "t", "y">>,
     true |-> <<"t", "r", "u", "e">>,
     false |-> <<"f", "a", "l", "s", "e">>]

-----------------------------------------------------------------------------
(* Python values and the string operations the code uses *)

None == [none |-> TRUE]

Str(s) == [str |-> s]

IsStr(v) == DOMAIN v = {"str"}

IsInt(v) == DOMAIN v = {"int"}

IsBool(v) == DOMAIN v = {"bool"}

IsFloat(v) == DOMAIN v \in {{"flt"}, {"nan"}, {"inf"}}

IsDatetime(v) == DOMAIN v \in {{"date"}, {"ts"}}

IsLeap(y) == (y % 4 = 0 /\ y % 100 # 0) \/ y % 400 = 0

UPPER == <<"A", "B", "C", "D", "E", "F", "G", "H", "I", "J", "K", "L", "M",
           "N", "O", "P", "Q", "R", "S", "T", "U", "V", "W", "X", "Y", "Z">>

LOWER == <<"a", "b", "c", "d", "e", "f", "g", "h", "i", "j", "k", "l", "m",
           "n", "o", "p", "q", "r", "s", "t", "u", "v", "w", "x", "y", "z">>

DIGITS == <<"0", "1", "2", "3", "4", "5", "6", "7", "8", "9">>

WHITESPACE == {" ", "\t", "\n", "\r"}

\* the lower-case letter of each capital
LowerOf == [c \in {UPPER[i] : i \in DOMAIN UPPER} |-> LOWER[CHOOSE i \in DOMAIN UPPER : UPPER[i] = c]]

Capitals == DOMAIN LowerOf

lower_char(c) == IF c \in Capitals THEN LowerOf[c] ELSE c

\* str.lower()
RECURSIVE lower(_)
lower(s) == IF s = <<>> THEN <<>> ELSE <<lower_char(s[1])>> \o lower(Tail(s))

RECURSIVE lstrip(_)
lstrip(s) == IF s # <<>> /\ s[1] \in WHITESPACE THEN lstrip(Tail(s)) ELSE s

RECURSIVE rstrip(_)
rstrip(s) ==
    IF s # <<>> /\ s[Len(s)] \in WHITESPACE THEN rstrip(SubSeq(s, 1, Len(s) - 1)) ELSE s

\* str.strip()
strip(s) == rstrip(lstrip(s))

IsDigit(c) == \E i \in DOMAIN DIGITS : DIGITS[i] = c

DigitVal(c) == (CHOOSE i \in DOMAIN DIGITS : DIGITS[i] = c) - 1

AllDigits(s) == \A i \in 1..Len(s) : IsDigit(s[i])

RECURSIVE DigitsVal(_)
DigitsVal(s) ==
    IF s = <<>> THEN 0 ELSE 10 * DigitsVal(SubSeq(s, 1, Len(s) - 1)) + DigitVal(s[Len(s)])

RECURSIVE Pow10(_)
Pow10(n) == IF n <= 0 THEN 1 ELSE 10 * Pow10(n - 1)

HasSign(t) == t # <<>> /\ t[1] \in {"+", "-"}

Unsigned(t) == IF HasSign(t) THEN Tail(t) ELSE t

SignOf(t) == IF t # <<>> /\ t[1] = "-" THEN -1 ELSE 1

\* int(s) of a string succeeds: optional surrounding whitespace, optional sign, digits
int_parses(s) ==
    LET body == Unsigned(strip(s)) IN body # <<>> /\ AllDigits(body)

\* int(s) of a string
int_of_str(s) == LET t == strip(s) IN SignOf(t) * DigitsVal(Unsigned(t))

\* the first index of character c in s, 0 when absent
IndexOf(s, c) ==
    IF \E i \in 1..Len(s) : s[i] = c THEN CHOOSE i \in 1..Len(s) : s[i] = c /\ \A j \in 1..(i - 1) : s[j] # c
    ELSE 0

\* the decimal literal part of float(): digits with an optional point, at least one digit
decimal_parses(b) ==
    LET p == IndexOf(b, ".")
        ip == IF p = 0 THEN b ELSE SubSeq(b, 1, p - 1)
        fp == IF p = 0 THEN <<>> ELSE SubSeq(b, p + 1, Len(b))
    IN  AllDigits(ip) /\ AllDigits(fp) /\ Len(ip) + Len(fp) > 0

\* the exponent part of float(): optional sign, digits
exponent_parses(x) == Unsigned(x) # <<>> /\ AllDigits(Unsigned(x))

\* float(s) of a string succeeds
float_parses(s) ==
    LET t == strip(s)
        b == lower(Unsigned(t))
        p == IndexOf(b, "e")
    IN  \/ b \in {nm.nan, nm.inf, nm.infinity}
        \/ p = 0 /\ decimal_parses(b)
        \/ p > 0 /\ decimal_parses(SubSeq(b, 1, p - 1)) /\ exponent_parses(SubSeq(b, p + 1, Len(b)))

RECURSIVE NormFlt(_, _)
NormFlt(m, e) ==
    IF e < 0 THEN NormFlt(m * Pow10(-e), 0)
    ELSE IF e > 0 /\ m % 10 = 0 THEN NormFlt(m \div 10, e - 1)
    ELSE [flt |-> <<m, e>>]

\* float(n) of an integer
float_of_int(n) == [flt |-> <<n, 0>>]

\* float(s) of a string that parses: the decimal value m * 10^-e, nan or +-inf
float_of_str(s) ==
    LET t == strip(s)
        b == lower(Unsigned(t))
        p == IndexOf(b, "e")
        d == IF p = 0 THEN b ELSE SubSeq(b, 1, p - 1)
        x == IF p = 0 THEN <<>> ELSE SubSeq(b, p + 1, Len(b))
        q == IndexOf(d, ".")
        ip == IF q = 0 THEN d ELSE SubSeq(d, 1, q - 1)
        fp == IF q = 0 THEN <<>> ELSE SubSeq(d, q + 1, Len(d))
        ex == SignOf(x) * DigitsVal(Unsigned(x))
    IN  IF b = nm.nan THEN [nan |-> TRUE]
        ELSE IF b \in {nm.inf, nm.infinity} THEN [inf |-> SignOf(t)]
        ELSE NormFlt(SignOf(t) * DigitsVal(ip \o fp), Len(fp) - ex)

\* a < b on floats; every comparison with nan is false
FltLT(a, b) ==
    IF "nan" \in DOMAIN a \/ "nan" \in DOMAIN b THEN FALSE
    ELSE IF "inf" \in DOMAIN a THEN a.inf < 0 /\ ~("inf" \in DOMAIN b /\ b.inf < 0)
    ELSE IF "inf" \in DOMAIN b THEN b.inf > 0
    ELSE a.flt[1] * Pow10(b.flt[2]) < b.flt[1] * Pow10(a.flt[2])

-----------------------------------------------------------------------------
(* Contracts: the maps and schemas of the three record types *)

\* TaxonomyRecord.schema (the _id is sci_name)
TaxonomyRecord_schema ==
    [f \in {nm.taxon_order, nm.primary_com_name, nm.category, nm.order_name, nm.family_name, nm.subfamily_name, nm.genus_name, nm.species_name} |->
        IF f = nm.taxon_order THEN [type |-> "number", nullable |-> TRUE, required |-> FALSE] ELSE
        IF f = nm.primary_com_name THEN [type |-> "string", nullable |-> FALSE, required |-> TRUE] ELSE
        IF f = nm.category THEN [type |-> "string", nullable |-> TRUE, required |-> FALSE] ELSE
        IF f = nm.order_name THEN [type |-> "string", nullable |-> TRUE, required |-> FALSE] ELSE
        IF f = nm.family_name THEN [type |-> "string", nullable |-> TRUE, required |-> FALSE] ELSE
        IF f = nm.subfamily_name THEN [type |-> "string", nullable |-> TRUE, required |-> FALSE] ELSE
        IF f = nm.genus_name THEN [type |-> "string", nullable |-> TRUE, required |-> FALSE] ELSE
        [type |-> "string", nullable |-> TRUE, required |-> FALSE]]

\* MigrationChecklistRecord.schema (the _id is sampling_event_id)
MigrationChecklistRecord_schema ==
    [f \in {nm.loc_id, nm.loc, nm.year, nm.month, nm.day, nm.time, nm.country, nm.state_province, nm.county, nm.count_type, nm.effort_hrs, nm.effort_distance_km, nm.effort_area_ha, nm.observer_id, nm.number_observers, nm.group_id, nm.primary_checklist_flag} |->
        IF f = nm.loc_id THEN [type |-> "string", nullable |-> TRUE, required |-> FALSE] ELSE
        IF f = nm.loc THEN [type |-> "dict", nullable |-> FALSE, required |-> FALSE] ELSE
        IF f = nm.year THEN [type |-> "integer", nullable |-> FALSE, required |-> TRUE] ELSE
        IF f = nm.month THEN [type |-> "integer", nullable |-> FALSE, required |-> TRUE] ELSE
        IF f = nm.day THEN [type |-> "integer", nullable |-> FALSE, required |-> TRUE] ELSE
        IF f = nm.time THEN [type |-> "number", nullable |-> TRUE, required |-> FALSE] ELSE
        IF f = nm.country THEN [type |-> "string", nullable |-> TRUE, required |-> FALSE] ELSE
        IF f = nm.state_province THEN [type |-> "string", nullable |-> TRUE, required |-> FALSE] ELSE
        IF f = nm.county THEN [type |-> "string", nullable |-> TRUE, required |-> FALSE] ELSE
        IF f = nm.count_type THEN [type |-> "string", nullable |-> TRUE, required |-> FALSE] ELSE
        IF f = nm.effort_hrs THEN [type |-> "number", nullable |-> TRUE, required |-> FALSE] ELSE
        IF f = nm.effort_distance_km THEN [type |-> "number", nullable |-> TRUE, required |-> FALSE] ELSE
        IF f = nm.effort_area_ha THEN [type |-> "number", nullable |-> TRUE, required |-> FALSE] ELSE
        IF f = nm.observer_id THEN [type |-> "string", nullable |-> TRUE, required |-> FALSE] ELSE
        IF f = nm.number_observers THEN [type |-> "integer", nullable |-> TRUE, required |-> FALSE] ELSE
        IF f = nm.group_id THEN [type |-> "string", nullable |-> TRUE, required |-> FALSE] ELSE
        [type |-> "boolean", nullable |-> TRUE, required |-> FALSE]]

\* MigrationCoreRecord.schema (the _id is sampling_event_id)
MigrationCoreRecord_schema ==
    [f \in {nm.loc_id, nm.pop00_sqmi, nm.housing_density, nm.housing_percent_vacant, nm.elev_gt, nm.elev_ned, nm.bcr, nm.bailey_ecoregion, nm.omernik_l3_ecoregion, nm.caus_temp_avg, nm.caus_temp_min, nm.caus_temp_max, nm.caus_prec, nm.caus_snow} |->
        IF f = nm.loc_id THEN [type |-> "string", nullable |-> TRUE, required |-> FALSE] ELSE
        IF f = nm.pop00_sqmi THEN [type |-> "number", nullable |-> TRUE, required |-> FALSE] ELSE
        IF f = nm.housing_density THEN [type |-> "number", nullable |-> TRUE, required |-> FALSE] ELSE
        IF f = nm.housing_percent_vacant THEN [type |-> "number", nullable |-> TRUE, required |-> FALSE] ELSE
        IF f = nm.elev_gt THEN [type |-> "integer", nullable |-> TRUE, required |-> FALSE] ELSE
        IF f = nm.elev_ned THEN [type |-> "number", nullable |-> TRUE, required |-> FALSE] ELSE
        IF f = nm.bcr THEN [type |-> "integer", nullable |-> TRUE, required |-> FALSE] ELSE
        IF f = nm.bailey_ecoregion THEN [type |-> "string", nullable |-> TRUE, required |-> FALSE] ELSE
        IF f = nm.omernik_l3_ecoregion THEN [type |-> "integer", nullable |-> TRUE, required |-> FALSE] ELSE
        IF f = nm.caus_temp_avg THEN [type |-> "integer", nullable |-> TRUE, required |-> FALSE] ELSE
        IF f = nm.caus_temp_min THEN [type |-> "integer", nullable |-> TRUE, required |-> FALSE] ELSE
        IF f = nm.caus_temp_max THEN [type |-> "integer", nullable |-> TRUE, required |-> FALSE] ELSE
        IF f = nm.caus_prec THEN [type |-> "integer", nullable |-> TRUE, required |-> FALSE] ELSE
        [type |-> "integer", nullable |-> TRUE, required |-> FALSE]]

\* TaxonomyType.map: every key maps to itself
TaxonomyType_map ==
    [h \in
    {nm.sci_name, nm.taxon_order, nm.primary_com_name, nm.category,
     nm.order_name, nm.family_name, nm.subfamily_name, nm.genus_name,
     nm.species_name} |-> [maps_to |-> h]]

\* MigrationChecklistType.map: every key maps to itself
MigrationChecklistType_map ==
    [h \in
    {nm.sampling_event_id, nm.loc_id, nm.latitude, nm.longitude,
     nm.year, nm.month, nm.day, nm.time,
     nm.country, nm.state_province, nm.county, nm.count_type,
     nm.effort_hrs, nm.effort_distance_km, nm.effort_area_ha, nm.observer_id,
     nm.number_observers, nm.group_id, nm.primary_checklist_flag} |-> [maps_to |-> h]]

\* MigrationCoreType.map: every key maps to itself
MigrationCoreType_map ==
    [h \in
    {nm.sampling_event_id, nm.loc_id, nm.pop00_sqmi, nm.housing_density,
     nm.housing_percent_vacant, nm.elev_gt, nm.elev_ned, nm.bcr,
     nm.bailey_ecoregion, nm.omernik_l3_ecoregion, nm.caus_temp_avg, nm.caus_temp_min,
     nm.caus_temp_max, nm.caus_prec, nm.caus_snow} |-> [maps_to |-> h]]


\* InvalidRecord.schema
InvalidRecord_schema ==
    [f \in {nm.Date, nm.Errors, nm.RecordType, nm.RowNum} |->
        IF f = nm.Date THEN [type |-> "datetime", nullable |-> FALSE, required |-> TRUE] ELSE
        IF f = nm.Errors THEN [type |-> "dict", nullable |-> FALSE, required |-> TRUE] ELSE
        IF f = nm.RecordType THEN [type |-> "string", nullable |-> FALSE, required |-> TRUE] ELSE
        [type |-> "integer", nullable |-> TRUE, required |-> FALSE]]

\* settings._TYPES
TYPES == {"Taxonomy", "Checklist", "Core"}

\* provider_type.map
provider_map(t) ==
    IF t = "Taxonomy" THEN TaxonomyType_map
    ELSE IF t = "Checklist" THEN MigrationChecklistType_map
    ELSE MigrationCoreType_map

\* the schema of provider_type.record
record_schema(t) ==
    IF t = "Taxonomy" THEN TaxonomyRecord_schema
    ELSE IF t = "Checklist" THEN MigrationChecklistRecord_schema
    ELSE MigrationCoreRecord_schema

\* type(record).__name__
record_name(t) ==
    IF t = "Taxonomy" THEN nm.TaxonomyRecord
    ELSE IF t = "Checklist" THEN nm.MigrationChecklistRecord
    ELSE nm.MigrationCoreRecord

\* provider_type.collection_name: settings._NODE_COLLECTION_NAME or _PATH_COLLECTION_NAME
collection_name(t) == IF t = "Taxonomy" THEN "birds" ELSE "migrations"

\* the Validator of the record: only the Taxonomy one rejects unknown fields
allow_unknown(t) == t # "Taxonomy"

\* provider_type.header_position
header_position(t) == 0

\* provider_type.data_position
data_position(t) == 1

\* provider_type.num_empty_rows_eod: 0 in the three contracts ("data runs until end
\* of file"); "Terminated" is the Core contract declaring one empty row as the
\* end of the data
num_empty_rows_eod(t) == IF t = "Terminated" THEN 1 ELSE 0

\* settings._DISABLE_SCHEMA_MATCH
DISABLE_SCHEMA_MATCH == TRUE

-----------------------------------------------------------------------------
(* Record: coercion *)

\* Record.is_empty_str: str(val).strip() is empty; str() of a non-string never is
is_empty_str(val) == IsStr(val) /\ strip(val.str) = <<>>

\* Record.could_be_int
could_be_int(val) ==
    IF val = None THEN FALSE
    ELSE IF IsInt(val) \/ IsBool(val) THEN TRUE
    ELSE IF IsStr(val) THEN int_parses(val.str)
    ELSE FALSE

\* Record.could_be_float
could_be_float(val) ==
    IF val = None THEN FALSE
    ELSE IF IsFloat(val) THEN TRUE
    ELSE IF IsStr(val) THEN float_parses(val.str)
    ELSE FALSE

\* Record.could_be_number
could_be_number(val) ==
    IF val = None THEN FALSE
    ELSE IF IsFloat(val) \/ IsInt(val) \/ IsBool(val) THEN TRUE
    ELSE IF IsStr(val) THEN float_parses(val.str)
    ELSE FALSE

\* Record.could_be_boolean
could_be_boolean(val) ==
    IF val = None THEN FALSE
    ELSE IF IsBool(val) THEN TRUE
    ELSE IF IsStr(val) THEN lower(val.str) \in {nm.true, <<"1">>, nm.false, <<"0">>}
    ELSE IF IsInt(val) THEN val.int \in {0, 1}
    ELSE FALSE

\* int(val) where could_be_int(val)
py_int(val) ==
    IF IsInt(val) THEN val
    ELSE IF IsBool(val) THEN [int |-> IF val.bool THEN 1 ELSE 0]
    ELSE [int |-> int_of_str(val.str)]

\* float(val) where could_be_number(val) or could_be_float(val)
py_float(val) ==
    IF IsFloat(val) THEN val
    ELSE IF IsInt(val) THEN float_of_int(val.int)
    ELSE IF IsBool(val) THEN float_of_int(IF val.bool THEN 1 ELSE 0)
    ELSE float_of_str(val.str)

\* Record.parse_boolean
parse_boolean(field) ==
    IF could_be_boolean(field)
    THEN IF could_be_int(field) THEN [bool |-> py_int(field).int # 0]
         ELSE IF IsStr(field) /\ lower(field.str) = nm.true THEN [bool |-> TRUE]
         ELSE IF IsStr(field) /\ lower(field.str) = nm.false THEN [bool |-> FALSE]
         ELSE [bool |-> TRUE]
    ELSE None

\* a mapping with key k set to v (dict[k] = v)
Put(f, k, v) == (k :> v) @@ f

\* str(val) raises UnicodeEncodeError: val is a unicode string with a character
\* the ascii codec cannot encode (such a character is named by its code point)
str_raises(val) == IsStr(val) /\ \E i \in 1..Len(val.str) : val.str[i] \in {"U+00EB"}

\* the month abbreviations %b matches, in the C locale
MONTHS == << <<"j", "a", "n">>, <<"f", "e", "b">>, <<"m", "a", "r">>, <<"a", "p", "r">>,
             <<"m", "a", "y">>, <<"j", "u", "n">>, <<"j", "u", "l">>, <<"a", "u", "g">>,
             <<"s", "e", "p">>, <<"o", "c", "t">>, <<"n", "o", "v">>, <<"d", "e", "c">> >>

\* the day of the year of the first of the month
first_of_month(month, year) ==
    <<1, 32, 60, 91, 121, 152, 182, 213, 244, 274, 305, 335>>[month]
        + (IF month > 2 /\ IsLeap(year) THEN 1 ELSE 0)

\* settings._STRFTIME_FORMAT
STRFTIME_FORMAT == Str(<<"%", "b", " ", "%", "Y">>)

\* datetime.strptime(s, fmt) for formats of %Y, %b, whitespace and literal
\* characters: the year and month parsed so far, or None when s does not match
\* (ValueError).  %Y is four digits, %b a month abbreviation in any case, a run
\* of whitespace in the format matches one or more whitespace characters, and
\* no data may remain.
RECURSIVE strptime_match(_, _, _)
strptime_match(s, fmt, found) ==
    IF fmt = <<>> THEN (IF s = <<>> THEN found ELSE None)
    ELSE IF Len(fmt) >= 2 /\ fmt[1] = "%" /\ fmt[2] = "Y"
    THEN IF Len(s) >= 4 /\ AllDigits(SubSeq(s, 1, 4))
         THEN strptime_match(SubSeq(s, 5, Len(s)), SubSeq(fmt, 3, Len(fmt)),
                             [found EXCEPT !.year = DigitsVal(SubSeq(s, 1, 4))])
         ELSE None
    ELSE IF Len(fmt) >= 2 /\ fmt[1] = "%" /\ fmt[2] = "b"
    THEN IF Len(s) >= 3 /\ \E month \in 1..12 : MONTHS[month] = lower(SubSeq(s, 1, 3))
         THEN strptime_match(SubSeq(s, 4, Len(s)), SubSeq(fmt, 3, Len(fmt)),
                             [found EXCEPT !.month =
                                 CHOOSE month \in 1..12 : MONTHS[month] = lower(SubSeq(s, 1, 3))])
         ELSE None
    ELSE IF fmt[1] \in WHITESPACE
    THEN IF s # <<>> /\ s[1] \in WHITESPACE
         THEN strptime_match(lstrip(s), lstrip(fmt), found)
         ELSE None
    ELSE IF s # <<>> /\ lower_char(s[1]) = lower_char(fmt[1])
    THEN strptime_match(Tail(s), Tail(fmt), found)
    ELSE None

\* datetime.strptime(s, fmt): the datetime, or None for ValueError (no match, or
\* a year datetime rejects)
strptime(s, fmt) ==
    IF strptime_match(s, fmt, [year |-> 1900, month |-> 1]) = None THEN None
    ELSE IF strptime_match(s, fmt, [year |-> 1900, month |-> 1]).year < 1 THEN None
    ELSE [date |-> <<strptime_match(s, fmt, [year |-> 1900, month |-> 1]).year,
                     first_of_month(strptime_match(s, fmt, [year |-> 1900, month |-> 1]).month,
                                    strptime_match(s, fmt, [year |-> 1900, month |-> 1]).year)>>]

\* Record.could_be_datetime, where it does not raise
could_be_datetime(val, fmt) ==
    IF val = None \/ fmt = None THEN FALSE
    ELSE IF IsDatetime(val) THEN TRUE
    ELSE IF IsStr(val)
    THEN IF strip(val.str) = <<>> \/ strip(fmt.str) = <<>> THEN FALSE
         ELSE strptime(val.str, fmt.str) # None
    ELSE FALSE

\* the value the datetime branch of set_field_by_schema stores, where it does not
\* raise, parsing with the rule's format (the default when that is None)
coerce_datetime(rule, field) ==
    IF rule.datetime_format = None
    THEN IF could_be_datetime(field, STRFTIME_FORMAT)
         THEN strptime(field.str, STRFTIME_FORMAT.str) ELSE None
    ELSE IF could_be_datetime(field, rule.datetime_format)
         THEN strptime(field.str, rule.datetime_format.str) ELSE None

\* the exception set_field_by_schema raises, "none" when it returns.  The string
\* branch and could_be_datetime call is_empty_str, whose str(val) raises
\* UnicodeEncodeError for a unicode cell with a character outside ascii; the
\* datetime branch subscripts the rule with 'datetime_format' (KeyError when the
\* rule has none) and passes a value that is a datetime already to strptime
\* (TypeError).
set_field_by_schema_raises(schema, header, field) ==
    IF header \notin DOMAIN schema THEN "none"
    ELSE IF schema[header].type = "string"
    THEN (IF str_raises(field) THEN "UnicodeEncodeError" ELSE "none")
    ELSE IF schema[header].type = "datetime"
    THEN IF "datetime_format" \notin DOMAIN schema[header] THEN "KeyError"
         ELSE IF field = None THEN "none"
         ELSE IF IsDatetime(field) THEN "TypeError"
         ELSE IF str_raises(field) THEN "UnicodeEncodeError"
         ELSE "none"
    ELSE "none"

\* the string branch of set_field_by_schema
coerce_string(field) ==
    IF is_empty_str(field) THEN None
    ELSE IF field = Str(<<"?">>) THEN None
    ELSE field

\* the value set_field_by_schema stores for a declared type
coerce(data_type, field) ==
    IF data_type = "string" THEN coerce_string(field)
    ELSE IF data_type = "integer" THEN (IF could_be_int(field) THEN py_int(field) ELSE None)
    ELSE IF data_type = "number" THEN (IF could_be_number(field) THEN py_float(field) ELSE None)
    ELSE IF data_type = "float" THEN (IF could_be_float(field) THEN py_float(field) ELSE None)
    ELSE IF data_type = "boolean" THEN parse_boolean(field)
    ELSE None

\* Record.set_field_by_schema: the record's fields afterwards; a header that is not
\* in the schema is ignored (settings._DISABLE_SCHEMA_MATCH), and a declared type
\* none of the branches handles (dict) leaves the fields alone
set_field_by_schema(fields, schema, header, field) ==
    IF header \notin DOMAIN schema THEN fields
    ELSE IF schema[header].type = "datetime"
    THEN Put(fields, header, coerce_datetime(schema[header], field))
    ELSE IF schema[header].type \in {"string", "integer", "number", "float", "boolean"}
    THEN Put(fields, header, coerce(schema[header].type, field))
    ELSE fields

\* the record after self.set_field_by_schema(header, field)
set_field(rec, schema, header, field) ==
    IF set_field_by_schema_raises(schema, header, field) # "none"
    THEN [rec EXCEPT !.exc = set_field_by_schema_raises(schema, header, field)]
    ELSE [rec EXCEPT !.fields = set_field_by_schema(rec.fields, schema, header, field)]

-----------------------------------------------------------------------------
(* Validation: the schema validator of the records *)

IsDict(v) == DOMAIN v = {"dict"}

IsList(v) == DOMAIN v = {"list"}

\* the validator's type rule
type_ok(type, v) ==
    IF type = "string" THEN IsStr(v)
    ELSE IF type = "integer" THEN IsInt(v) \/ IsBool(v)
    ELSE IF type = "number" THEN IsFloat(v) \/ IsInt(v) \/ IsBool(v)
    ELSE IF type = "float" THEN IsFloat(v)
    ELSE IF type = "boolean" THEN IsBool(v)
    ELSE IF type = "datetime" THEN IsDatetime(v)
    ELSE IF type = "dict" THEN IsDict(v)
    ELSE IsList(v)

\* the nested schema of 'loc': a string 'type' and a list 'coordinates', where present
loc_schema_ok(v) ==
    /\ nm.type \in DOMAIN v.dict => IsStr(v.dict[nm.type])
    /\ nm.coordinates \in DOMAIN v.dict => IsList(v.dict[nm.coordinates])

\* a validator that lets a null through whatever the rule's nullable says
validator_bad_fields_nulls_allowed(schema, unknown_allowed, document) ==
    {f \in DOMAIN document :
        IF f \in DOMAIN schema
        THEN document[f] # None /\ ~type_ok(schema[f].type, document[f])
        ELSE ~unknown_allowed}

\* the fields of the document the validator rejects
validator_bad_fields(schema, unknown_allowed, document) ==
    {f \in DOMAIN document :
        IF f \in DOMAIN schema
        THEN IF document[f] = None THEN ~schema[f].nullable
             ELSE \/ ~type_ok(schema[f].type, document[f])
                  \/ f = nm.loc /\ IsDict(document[f]) /\ ~loc_schema_ok(document[f])
        ELSE ~unknown_allowed}

\* Validator.validate(document): the errors it leaves, a mapping from field to message
validator_errors(schema, unknown_allowed, document) ==
    LET bad == validator_bad_fields(schema, unknown_allowed, document)
        missing == {f \in DOMAIN schema : schema[f].required /\ f \notin DOMAIN document}
    IN  [f \in bad \cup missing |->
            IF f \in missing THEN "required field"
            ELSE IF f \notin DOMAIN schema THEN "unknown field"
            ELSE IF document[f] = None THEN "null value not allowed"
            ELSE "must be of " \o schema[f].type \o " type"]

\* a mapping with no keys
EmptyMap == [f \in {} |-> None]

\* Record.__init__ and the variant's __init__: a record with no identifier and no
\* fields, whose validator has reported nothing yet
new_record(t, row_count) ==
    [kind |-> t, id |-> None, fields |-> EmptyMap, row_count |-> row_count,
     errors |-> EmptyMap, coordinates |-> <<None, None>>, exc |-> "none"]

\* the outcome of a validator run: the verdict, and the record keeping the errors
validated(rec, errors) == [ok |-> errors = EmptyMap, rec |-> [rec EXCEPT !.errors = errors]]

\* Record.validate without the identifier check
validate_without_id_check(rec) ==
    validated(rec, validator_errors(record_schema(rec.kind), allow_unknown(rec.kind), rec.fields))

\* Record.validate: the result, and the record afterwards (the validator keeps its
\* errors; it is not called at all when the identifier is missing)
validate(rec) ==
    IF rec.id = None THEN [ok |-> FALSE, rec |-> rec]
    ELSE validated(rec, validator_errors(record_schema(rec.kind), allow_unknown(rec.kind),
                                         rec.fields))

\* Record.to_json: a serialized snapshot of the fields
to_json(rec) == [json |-> rec.fields]

\* Record.validation_errors
validation_errors(rec) ==
    IF DOMAIN rec.errors # {} THEN Put(rec.errors, nm.fields, to_json(rec)) ELSE rec.errors

\* InvalidRecord.__init__: the fields of the invalid record
InvalidRecord(errors, record_type, row_num, now) ==
    [fields |-> (nm.Date :> [ts |-> now]) @@ (nm.Errors :> [dict |-> errors]) @@
                (nm.RecordType :> Str(record_type)) @@ (nm.RowNum :> [int |-> row_num])]

\* InvalidRecord.validate
InvalidRecord_validate(inv) ==
    validator_errors(InvalidRecord_schema, FALSE, inv.fields) = EmptyMap

-----------------------------------------------------------------------------
(* Record construction: create(row) of the three variants *)

\* Record.map_header
map_header(t, header) ==
    IF lower(header) \in DOMAIN provider_map(t)
    THEN Str(provider_map(t)[lower(header)].maps_to)
    ELSE None

\* the column that carries the identifier
id_header(t) == IF t = "Taxonomy" THEN nm.sci_name ELSE nm.sampling_event_id

\* an identifier taken as written in the cell, capitals kept
id_as_written(t, field) == field

\* the identifier a non-blank identifier cell gives
id_of(t, field) == IF t = "Taxonomy" THEN Str(lower(field.str)) ELSE field

\* the longitude/latitude branch of MigrationChecklistRecord.create
set_coordinate(rec, index, field) ==
    IF could_be_float(field)
    THEN [rec EXCEPT !.coordinates = [rec.coordinates EXCEPT ![index] = py_float(field)]]
    ELSE rec

\* one iteration of the loop of create(), once the header of the column is mapped.
\* An unmapped header is skipped by the Taxonomy variant; the wide variants call
\* Record.sanitize_key for it, which Record does not define.
create_mapped(rec, header, field) ==
    IF header = None
    THEN IF rec.kind = "Taxonomy" THEN rec ELSE [rec EXCEPT !.exc = "AttributeError"]
    ELSE IF is_empty_str(header) THEN rec
    ELSE IF lower(header.str) = id_header(rec.kind)
    THEN IF str_raises(field) THEN [rec EXCEPT !.exc = "UnicodeEncodeError"]
         ELSE IF ~is_empty_str(field) THEN [rec EXCEPT !.id = id_of(rec.kind, field)]
         ELSE rec
    ELSE IF rec.kind = "Checklist" /\ lower(header.str) = nm.longitude
    THEN set_coordinate(rec, 1, field)
    ELSE IF rec.kind = "Checklist" /\ lower(header.str) = nm.latitude
    THEN set_coordinate(rec, 2, field)
    ELSE set_field(rec, record_schema(rec.kind), header.str, field)

\* one iteration of the loop of create(): the cell at the zero-based position.
\* Indexing the header past its end raises IndexError.
create_field(rec, header_row_, field, position) ==
    IF position >= Len(header_row_) THEN [rec EXCEPT !.exc = "IndexError"]
    ELSE create_mapped(rec, map_header(rec.kind, header_row_[position + 1]), field)

\* the loop of create(): the cells of the row in order, until one raises
RECURSIVE create_loop(_, _, _, _)
create_loop(rec, header_row_, row, position) ==
    IF position >= Len(row) \/ rec.exc # "none" THEN rec
    ELSE create_loop(create_field(rec, header_row_, row[position + 1], position),
                     header_row_, row, position + 1)

\* MigrationChecklistRecord.is_valid_coordinate_pair
is_valid_coordinate_pair(coordinates) ==
    LET longitude == coordinates[1]
        latitude == coordinates[2]
    IN  IF longitude = None \/ latitude = None THEN FALSE
        ELSE IF FltLT(latitude, float_of_int(-90)) \/ FltLT(float_of_int(90), latitude) THEN FALSE
        ELSE IF FltLT(longitude, float_of_int(-180)) \/ FltLT(float_of_int(180), longitude) THEN FALSE
        ELSE TRUE

\* the geoJSON point of a coordinate pair
Point(coordinates) ==
    [dict |-> (nm.type :> Str(nm.Point)) @@ (nm.coordinates :> [list |-> coordinates])]

\* datetime.MINYEAR, datetime.MAXYEAR
MINYEAR == 1

MAXYEAR == 9999

DaysInYear(y) == IF IsLeap(y) THEN 366 ELSE 365

\* datetime(year, 1, 1) + timedelta(days = day - 1): the date as <<year, day of year>>,
\* or the error raised: ValueError for a year datetime() rejects, OverflowError when
\* the sum leaves the calendar
RECURSIVE add_days(_, _)
add_days(year, day) ==
    IF year < MINYEAR \/ year > MAXYEAR THEN [raise |-> "OverflowError"]
    ELSE IF day < 1 THEN
        (IF year - 1 < MINYEAR THEN [raise |-> "OverflowError"]
         ELSE add_days(year - 1, day + DaysInYear(year - 1)))
    ELSE IF day > DaysInYear(year) THEN add_days(year + 1, day - DaysInYear(year))
    ELSE [date |-> <<year, day>>]

year_plus_days(year, day) ==
    IF year < MINYEAR \/ year > MAXYEAR THEN [raise |-> "ValueError"] ELSE add_days(year, day)

\* the end of gen_date: the date computed, ValueError caught, any other error let through
gen_date_result(rec, date) ==
    IF "raise" \in DOMAIN date
    THEN IF date.raise = "ValueError" THEN [rec EXCEPT !.fields = Put(rec.fields, nm.date, None)]
         ELSE [rec EXCEPT !.exc = date.raise]
    ELSE [rec EXCEPT !.fields = Put(rec.fields, nm.date, date)]

\* gen_date once the validator has run
gen_date_validated(rec, errors) ==
    IF errors # EmptyMap
    THEN [rec EXCEPT !.errors = errors, !.fields = Put(rec.fields, nm.date, None)]
    ELSE gen_date_result([rec EXCEPT !.errors = errors],
                         year_plus_days(rec.fields[nm.year].int, rec.fields[nm.day].int))

\* MigrationChecklistRecord.gen_date: the record afterwards, whose fields hold the
\* date under 'date'; the validator runs (and keeps its errors); ValueError is
\* caught and gives None, any other error escapes
gen_date(rec) ==
    IF DOMAIN rec.fields = {} THEN [rec EXCEPT !.fields = Put(rec.fields, nm.date, None)]
    ELSE gen_date_validated(rec, validator_errors(record_schema(rec.kind),
                                                  allow_unknown(rec.kind), rec.fields))

\* the end of MigrationChecklistRecord.create: the point, then the date
checklist_finish(rec) ==
    gen_date([rec EXCEPT !.fields =
                 Put(rec.fields, nm.loc,
                     IF is_valid_coordinate_pair(rec.coordinates)
                     THEN Point(rec.coordinates) ELSE None)])

\* what follows the loop of create()
create_finish(rec) ==
    IF rec.exc # "none" THEN rec
    ELSE IF rec.kind = "Checklist" THEN checklist_finish(rec)
    ELSE rec

\* create(row) of the record's variant: the record afterwards; exc names the
\* exception that escaped create, "none" when it returned
create(rec, header_row_, row) ==
    IF rec.kind = "Taxonomy" /\ Len(header_row_) # Len(row)
    THEN [rec EXCEPT !.exc = "InvalidRecordLength"]
    ELSE create_finish(create_loop(rec, header_row_, row, 0))

-----------------------------------------------------------------------------
(* BirtFileReader.process_row *)

\* a test that finds a cell in every row
any_row(row) == TRUE

\* any(row): some cell is a non-empty string
any_cell(row) == \E i \in 1..Len(row) : row[i].str # <<>>

\* the record process_row builds for a row: constructed, then create(row)
created_record(t, header_row_, row_count, row) ==
    create(new_record(t, row_count), header_row_, row)

\* the end of process_row: the invalid record is queued if it is itself valid
queue_invalid(record, invalid_record) ==
    IF InvalidRecord_validate(invalid_record)
    THEN [ret |-> "pair", valid |-> None, invalid |-> invalid_record, record |-> record]
    ELSE [ret |-> "pair", valid |-> None, invalid |-> None, record |-> record]

\* a routing that returns the record as valid whatever validate() said
route_unchecked(t, record, checked, now) ==
    [ret |-> "pair", valid |-> checked.rec, invalid |-> None, record |-> record]

\* process_row after validate(): the record is routed
route(t, record, checked, now) ==
    IF checked.ok
    THEN [ret |-> "pair", valid |-> checked.rec, invalid |-> None, record |-> record]
    ELSE queue_invalid(record, InvalidRecord(validation_errors(checked.rec), record_name(t),
                                             record.row_count, now))

\* process_row after create(): InvalidRecordProperty and InvalidRecordLength are
\* caught and answered with a bare return; any other exception is not caught
process_created(t, record, now) ==
    IF record.exc \in {"InvalidRecordProperty", "InvalidRecordLength"}
    THEN [ret |-> "None", record |-> record]
    ELSE IF record.exc # "none" THEN [ret |-> "raise", exc |-> record.exc, record |-> record]
    ELSE route(t, record, validate(record), now)

\* BirtFileReader.process_row: what comes back for the row numbered row_count.
\*   [ret |-> "pair", valid, invalid]  the list [valid, invalid] (None for an absent one)
\*   [ret |-> "None"]                  the bare return after a caught InvalidRecordLength
\*   [ret |-> "raise", exc]            an exception the handlers do not catch
\* record is the record it built (None when the row was out of range or empty).
process_row(t, header_row_, end_of_data_, row_count, row, now) ==
    IF row_count >= data_position(t) /\ [int |-> row_count] # end_of_data_ /\ any_cell(row)
    THEN process_created(t, created_record(t, header_row_, row_count, row), now)
    ELSE [ret |-> "pair", valid |-> None, invalid |-> None, record |-> None]

-----------------------------------------------------------------------------
(* BirtMongoConnection: the writes *)

\* a write that inserts the record's fields under a key of its own instead of
\* updating the document of the record's identifier
insert_one(collection, record) ==
    ([oid |-> Cardinality(DOMAIN collection)] :> record.fields) @@ collection

\* a write that puts the record's fields in the place of the document of the
\* record's identifier, dropping the fields the document had
replace_one(collection, record) == (record.id :> record.fields) @@ collection

\* one operation of the bulk: find({'_id': record.id}).upsert().update({'$set': record.fields})
upsert_one(collection, record) ==
    IF record.id \in DOMAIN collection
    THEN [collection EXCEPT ![record.id] = record.fields @@ collection[record.id]]
    ELSE (record.id :> record.fields) @@ collection

\* the first n operations of the ordered bulk, applied in list order
RECURSIVE apply_upserts(_, _, _)
apply_upserts(collection, records, n) ==
    IF n = 0 THEN collection
    ELSE upsert_one(apply_upserts(collection, records, n - 1), records[n])

\* a batch written as n inserts, each under a key of its own
bulk_insert(collection, records, n) ==
    [k \in {[oid |-> Cardinality(DOMAIN collection) + i] : i \in 1..n} |->
        records[k.oid - Cardinality(DOMAIN collection)].fields] @@ collection

\* BirtMongoConnection.bulk_upsert: the collection afterwards when bulk.execute()
\* applied the first n operations (n = Len(records): no BulkWriteError; fewer: the
\* ordered bulk stopped at operation n + 1 and the error was logged)
bulk_upsert(collection, records, n) ==
    IF Len(records) = 0 THEN collection ELSE apply_upserts(collection, records, n)

\* BirtMongoConnection.insert_many: the collection afterwards when the first n
\* documents were inserted (fewer than all: the insert raised and the error was logged)
insert_many(collection, records, n) ==
    IF Len(records) = 0 THEN collection
    ELSE collection \o [i \in 1..n |-> records[i].fields]

-----------------------------------------------------------------------------
(* Input files and the initial state *)

\* the header row of a Taxonomy file, with padding and capitals for strip() and lower()
TaxonomyHeader == <<Str(<<"s", "c", "i", "_", "n", "a", "m", "e">>), Str(<<" ", "P", "r", "i", "m", "a", "r", "y", "_", "c", "o", "m", "_", "n", "a", "m", "e">>)>>

\* the header row of a Checklist file; the last column is a species count, not in the map
ChecklistHeader ==
    <<Str(<<"s", "a", "m", "p", "l", "i", "n", "g", "_", "e", "v", "e", "n", "t", "_", "i", "d">>), Str(<<"l", "o", "n", "g", "i", "t", "u", "d", "e">>), Str(<<"l", "a", "t", "i", "t", "u", "d", "e">>), Str(<<"y", "e", "a", "r">>), Str(<<"m", "o", "n", "t", "h">>), Str(<<"d", "a", "y">>), Str(<<"s", "p">>)>>

\* the header row of a Core file
CoreHeader == <<Str(<<"s", "a", "m", "p", "l", "i", "n", "g", "_", "e", "v", "e", "n", "t", "_", "i", "d">>), Str(<<"l", "o", "c", "_", "i", "d">>), Str(<<"e", "l", "e", "v", "_", "g", "t">>)>>

\* a header row with no non-blank cell
BlankHeader == <<Str(<<>>), Str(<<" ">>)>>

\* data rows of a Taxonomy file: valid, blank identifier, placeholder name, one cell too many, all empty, the same identifier again
TaxonomyRows ==
    {<<Str(<<"T", "m">>), Str(<<"A", "r">>)>>,
     <<Str(<<>>), Str(<<"U", "n">>)>>,
     <<Str(<<"T", "m">>), Str(<<"?">>)>>,
     <<Str(<<"P", "d">>), Str(<<"H", "s">>), Str(<<"x">>)>>,
     <<Str(<<>>), Str(<<>>)>>,
     <<Str(<<"t", "m">>), Str(<<"Z", "z">>)>>}

\* data rows of a Checklist file: valid, longitude out of range, blank identifier, a date past the calendar, a species count cell
ChecklistRows ==
    {<<Str(<<"E", "1">>), Str(<<"1", "0">>), Str(<<"4", "0">>), Str(<<"2", "0", "2", "1">>), Str(<<"1">>), Str(<<"3", "5">>)>>,
     <<Str(<<"E", "2">>), Str(<<"2", "0", "0">>), Str(<<"4", "0">>), Str(<<"2", "0", "2", "1">>), Str(<<"1">>), Str(<<"3", "5">>)>>,
     <<Str(<<>>), Str(<<"1", "0">>), Str(<<"4", "0">>), Str(<<"2", "0", "2", "1">>), Str(<<"1">>), Str(<<"3", "5">>)>>,
     <<Str(<<"E", "3">>), Str(<<"1", "0">>), Str(<<"4", "0">>), Str(<<"9", "9", "9", "9">>), Str(<<"1">>), Str(<<"4", "0", "0">>)>>,
     <<Str(<<"E", "4">>), Str(<<"1", "0">>), Str(<<"4", "0">>), Str(<<"2", "0", "2", "1">>), Str(<<"1">>), Str(<<"3", "5">>), Str(<<"2">>)>>}

\* data rows of a Core file: valid, whitespace only, one cell too many, one cell short
CoreRows ==
    {<<Str(<<"E", "1">>), Str(<<"L", "1">>), Str(<<"1", "2">>)>>,
     <<Str(<<" ">>), Str(<<>>), Str(<<" ", " ">>)>>,
     <<Str(<<"E", "2">>), Str(<<"L", "1">>), Str(<<"1", "2">>), Str(<<"9">>)>>,
     <<Str(<<"E", "2">>), Str(<<"L", "2">>)>>}

Header(t) ==
    IF t = "Taxonomy" THEN TaxonomyHeader
    ELSE IF t = "Checklist" THEN ChecklistHeader
    ELSE CoreHeader

Rows(t) ==
    IF t = "Taxonomy" THEN TaxonomyRows
    ELSE IF t = "Checklist" THEN ChecklistRows
    ELSE CoreRows

\* the data sections of the files: up to MaxDataRows rows
DataSeqs(t) == UNION {[1..n -> Rows(t)] : n \in 0..MaxDataRows}

\* the files: the empty file, and a header, the contract's or a blank one, followed by data
Files(t) == {<<>>} \cup {<<h>> \o d : h \in {Header(t), BlankHeader}, d \in DataSeqs(t)}

\* the store before the run: one taxonomy document and one migration document
InitDb ==
    [birds |-> (Str(<<"t", "m">>) :> (nm.category :> Str(<<"s", "p">>))),
     migrations |-> (Str(<<"E", "1">>) :> (nm.country :> Str(<<"U", "S">>))),
     invalidRecords |-> <<>>]

InitLog ==
    [run |-> 1,             \* the number of the process() run under way
     yielded |-> <<>>,      \* the row numbers of each chunk gen_chunks yielded, this run
     rows |-> <<>>,         \* what process_row gave for each row handled, this run
     flushes |-> <<>>,      \* the batches of each flush and how far each write got, this run
     write_errors |-> 0,    \* the batch writes that have failed, all runs
     start_db |-> None,     \* the store when this run began
     first_db |-> None,     \* the store when the first run ended
     first_errors |-> 0]    \* the batch writes that failed in the first run

\* the stores a run may find: the taxonomy imported already or, for the Checklist
\* import that depends on it, not yet
Stores(t) ==
    IF t = "Checklist" THEN {InitDb, [InitDb EXCEPT !.birds = EmptyMap]} ELSE {InitDb}

\* the tool before run(), and the store before the run
Fresh ==
    /\ pc = "run"
    /\ header_row = <<>>
    /\ end_of_data = None
    /\ row_number = 0
    /\ chunk = <<>>
    /\ chunk_pos = 0
    /\ valid_records = <<>>
    /\ invalid_records = <<>>
    /\ db \in Stores(provider_type)
    /\ utcnow = 0
    /\ exc = "none"
    /\ row_record = None
    /\ log = [InitLog EXCEPT !.start_db = db]

Init ==
    /\ provider_type \in TYPES
    /\ infile \in Files(provider_type)
    /\ CHUNK_SIZE \in 1..MaxChunkSize
    /\ Fresh

-----------------------------------------------------------------------------
(* BirtFileReader.process, step by step *)

\* a header test on the cells as written, not stripped
any_unstripped(line) == \E i \in 1..Len(line) : line[i].str # <<>>

\* any(field.strip() for field in line)
any_stripped(line) == \E i \in 1..Len(line) : strip(line[i].str) # <<>>

\* the header the scan stores: every cell trimmed and lower-cased
stored_header(line) == [i \in 1..Len(line) |-> lower(strip(line[i].str))]

\* the precondition of run(): a Checklist import finds no taxonomy document
taxonomy_never_missing(t, store) == FALSE

taxonomy_missing(t, store) == t = "Checklist" /\ DOMAIN store.birds = {}

\* BirtConsumer.run, after the arguments are parsed: the connection is made, the
\* precondition raises MissingRecords, or the reader is constructed and process() begins
BirtConsumer_run ==
    /\ pc = "run"
    /\ IF taxonomy_missing(provider_type, db)
       THEN pc' = "aborted" /\ exc' = "MissingRecords"
       ELSE pc' = "start" /\ UNCHANGED exc
    /\ UNCHANGED <<provider_type, infile, CHUNK_SIZE, header_row, end_of_data, row_number,
                   chunk, chunk_pos, valid_records, invalid_records, db, utcnow,
                   row_record, log>>

\* find_header_and_end_of_data: the scan over all rows.  A blank header row raises
\* InvalidFileFormat; with a contract that counts empty rows the first row raises
\* NameError (empty_row_count is not a local name); otherwise end_of_data is the
\* number of rows and the file is rewound.
find_header_and_end_of_data ==
    /\ pc = "start"
    /\ LET hp == header_position(provider_type) IN
       IF Len(infile) > hp /\ ~any_stripped(infile[hp + 1])
       THEN /\ pc' = "aborted"
            /\ exc' = "InvalidFileFormat"
            /\ UNCHANGED <<header_row, end_of_data>>
       ELSE IF Len(infile) > 0 /\ num_empty_rows_eod(provider_type) > 0
       THEN /\ pc' = "aborted"
            /\ exc' = "NameError"
            /\ header_row' = (IF hp = 0 THEN stored_header(infile[1]) ELSE header_row)
            /\ UNCHANGED end_of_data
       ELSE /\ pc' = "read"
            /\ header_row' = (IF Len(infile) > hp THEN stored_header(infile[hp + 1]) ELSE header_row)
            /\ end_of_data' = [int |-> Len(infile)]
            /\ UNCHANGED exc
    /\ UNCHANGED <<provider_type, infile, CHUNK_SIZE, row_number, chunk, chunk_pos,
                   valid_records, invalid_records, db, utcnow, row_record, log>>

\* a test that ends a chunk before every multiple of the chunk size, row 0 included
at_multiple(n) == n % CHUNK_SIZE = 0

\* the test of gen_chunks that ends a chunk before the row numbered n
at_boundary(n) == n % CHUNK_SIZE = 0 /\ n > 0

\* gen_chunks: the next row is appended to the chunk
gen_chunks_append ==
    /\ pc = "read"
    /\ row_number < Len(infile)
    /\ ~at_boundary(row_number)
    /\ chunk' = Append(chunk, <<row_number, infile[row_number + 1]>>)
    /\ row_number' = row_number + 1
    /\ UNCHANGED <<provider_type, infile, CHUNK_SIZE, pc, header_row, end_of_data, chunk_pos,
                   valid_records, invalid_records, db, utcnow, exc, row_record, log>>

\* an accumulator that starts with what the chunk before left in it
kept_list(records) == records

\* syncprocess_chunk: valid_records = [], invalid_records = []
new_list(records) == <<>>

\* gen_chunks: the chunk is yielded, at a boundary or at the end of the file, and
\* syncprocess_chunk starts on it with empty accumulators
gen_chunks_yield ==
    /\ pc = "read"
    /\ row_number = Len(infile) \/ at_boundary(row_number)
    /\ pc' = "rows"
    /\ chunk_pos' = 0
    /\ valid_records' = new_list(valid_records)
    /\ invalid_records' = new_list(invalid_records)
    /\ log' = [log EXCEPT !.yielded = Append(@, [i \in 1..Len(chunk) |-> chunk[i][1]])]
    /\ UNCHANGED <<provider_type, infile, CHUNK_SIZE, header_row, end_of_data, row_number,
                   chunk, db, utcnow, exc, row_record>>

\* what became of a row process_row returned for
outcome_of(result) ==
    IF result.valid # None THEN "valid"
    ELSE IF result.invalid # None THEN "invalid"
    ELSE "skipped"

\* syncprocess_chunk: what one iteration does with the answer of process_row.
\* Unpacking the bare return raises TypeError; that and every exception process_row
\* lets through end the run.
unpack(row_count, result) ==
    /\ row_record' = (IF result.record # None THEN result.record ELSE row_record)
    /\ IF result.ret = "pair"
       THEN /\ valid_records' = (IF result.valid # None
                                 THEN Append(valid_records, result.valid)
                                 ELSE valid_records)
            /\ invalid_records' = (IF result.invalid # None
                                   THEN Append(invalid_records, result.invalid)
                                   ELSE invalid_records)
            /\ utcnow' = (IF result.invalid # None THEN utcnow + 1 ELSE utcnow)
            /\ chunk_pos' = chunk_pos + 1
            /\ log' = [log EXCEPT !.rows =
                          Append(@, [row |-> row_count, chunk |-> Len(log.yielded),
                                     outcome |-> outcome_of(result)])]
            /\ UNCHANGED <<pc, exc>>
       ELSE /\ pc' = "aborted"
            /\ exc' = (IF result.ret = "None" THEN "TypeError" ELSE result.exc)
            /\ UNCHANGED <<valid_records, invalid_records, utcnow, chunk_pos, log>>

\* syncprocess_chunk: one iteration of its loop
syncprocess_chunk_row ==
    /\ pc = "rows"
    /\ chunk_pos < Len(chunk)
    /\ unpack(chunk[chunk_pos + 1][1],
              process_row(provider_type, header_row, end_of_data, chunk[chunk_pos + 1][1],
                          chunk[chunk_pos + 1][2], utcnow))
    /\ UNCHANGED <<provider_type, infile, CHUNK_SIZE, header_row, end_of_data, row_number,
                   chunk, db>>

\* the number of writes that fail when the first n of the batch are written
failed(records, n) == IF n < Len(records) THEN 1 ELSE 0

\* the store after BirtFileReader.bulk_upsert: the valid batch upserted into the
\* contract's collection (the first n operations), then the invalid batch inserted
\* into invalidRecords (the first m documents)
store_after_flush(store, name, valid, invalid, n, m) ==
    [[store EXCEPT ![name] = bulk_upsert(store[name], valid, n)]
        EXCEPT !.invalidRecords = insert_many(store.invalidRecords, invalid, m)]

\* the end of the chunk when bulk.execute() applied n operations and insert_many
\* inserted m documents.  raised: bulk.execute() raised an error that is not a
\* BulkWriteError; bulk_upsert does not catch it, insert_many is not reached and
\* the error leaves process().
flushed(n, m, raised, errors) ==
    /\ log.write_errors + errors <= MaxWriteErrors
    /\ db' = store_after_flush(db, collection_name(provider_type),
                               valid_records, invalid_records, n, m)
    /\ log' = [log EXCEPT !.flushes =
                  Append(@, [chunk |-> Len(log.yielded), valid |-> valid_records,
                             invalid |-> invalid_records, upserted |-> n, inserted |-> m,
                             raised |-> raised]),
                          !.write_errors = @ + errors]
    /\ pc' = (IF raised THEN "aborted" ELSE IF row_number = Len(infile) THEN "done" ELSE "resume")
    /\ exc' = (IF raised THEN "PyMongoError" ELSE exc)

\* syncprocess_chunk: the end of the chunk, BirtFileReader.bulk_upsert.  Either
\* write may fail part-way.  A BulkWriteError of the upsert and any error of the
\* insert are logged and the run goes on; any other error of the upsert is not caught.
syncprocess_chunk_flush ==
    /\ pc = "rows"
    /\ chunk_pos = Len(chunk)
    /\ \E n \in 0..Len(valid_records), m \in 0..Len(invalid_records), raised \in BOOLEAN :
          IF raised
          THEN Len(valid_records) > 0 /\ m = 0 /\ flushed(n, 0, TRUE, 1)
          ELSE flushed(n, m, FALSE, failed(valid_records, n) + failed(invalid_records, m))
    /\ UNCHANGED <<provider_type, infile, CHUNK_SIZE, header_row, end_of_data, row_number,
                   chunk, chunk_pos, valid_records, invalid_records, utcnow, row_record>>

\* gen_chunks: resumed after a yield at a boundary, it empties the chunk and
\* appends the row that starts the next one
gen_chunks_resume ==
    /\ pc = "resume"
    /\ chunk' = << <<row_number, infile[row_number + 1]>> >>
    /\ row_number' = row_number + 1
    /\ pc' = "read"
    /\ UNCHANGED <<provider_type, infile, CHUNK_SIZE, header_row, end_of_data, chunk_pos,
                   valid_records, invalid_records, db, utcnow, exc, row_record, log>>

\* the tool is run again on the same file: a new reader, the same store
run_again ==
    /\ pc \in {"done", "aborted"}
    /\ log.run < MaxRuns
    /\ pc' = "run"
    /\ header_row' = <<>>
    /\ end_of_data' = None
    /\ row_number' = 0
    /\ chunk' = <<>>
    /\ chunk_pos' = 0
    /\ valid_records' = <<>>
    /\ invalid_records' = <<>>
    /\ exc' = "none"
    /\ row_record' = None
    /\ log' = [log EXCEPT !.run = @ + 1, !.yielded = <<>>, !.rows = <<>>, !.flushes = <<>>,
                          !.start_db = db,
                          !.first_db = (IF log.run = 1 THEN db ELSE @),
                          !.first_errors = (IF log.run = 1 THEN log.write_errors ELSE @)]
    /\ UNCHANGED <<provider_type, infile, CHUNK_SIZE, db, utcnow>>

Next ==
    \/ BirtConsumer_run
    \/ find_header_and_end_of_data
    \/ gen_chunks_append
    \/ gen_chunks_yield
    \/ syncprocess_chunk_row
    \/ syncprocess_chunk_flush
    \/ gen_chunks_resume
    \/ run_again

Spec == Init /\ [][Next]_vars

-----------------------------------------------------------------------------
(* Single Checklist rows: coordinates and dates *)

\* longitude cells: the lower limit, past the upper limit, not a number, empty,
\* unparseable, inside the range
CreateLongitudes ==
    {Str(<<"-", "1", "8", "0">>), Str(<<"2", "0", "0">>), Str(<<"n", "a", "n">>), Str(<<>>),
     Str(<<"x">>), Str(<<"1", "2", ".", "5">>)}

\* latitude cells: the upper limit, inside the range, past the lower limit, empty
CreateLatitudes ==
    {Str(<<"9", "0", ".", "0">>), Str(<<"4", "0">>), Str(<<"-", "9", "1">>), Str(<<>>)}

\* year cells: a common year, a year before the calendar, the last year of the calendar
CreateYears == {Str(<<"2", "0", "2", "1">>), Str(<<"0">>), Str(<<"9", "9", "9", "9">>)}

\* day-of-year cells: a day of the year, and two days past the end of a common year
CreateDays == {Str(<<"3", "5">>), Str(<<"3", "6", "6">>), Str(<<"4", "0", "0">>)}

\* Checklist files of one data row: identifier, longitude, latitude, year, month, day
CreateFiles ==
    {<<ChecklistHeader, <<Str(<<"E", "5">>), lon, lat, year, Str(<<"2">>), day>> >> :
        lon \in CreateLongitudes, lat \in CreateLatitudes, year \in CreateYears,
        day \in CreateDays}

InitCreate ==
    /\ provider_type = "Checklist"
    /\ infile \in CreateFiles
    /\ CHUNK_SIZE \in 1..MaxChunkSize
    /\ Fresh

\* process() over the one-row Checklist files
SpecCreate == InitCreate /\ [][Next]_vars

-----------------------------------------------------------------------------
(* bulk_upsert on its own: the same record list executed twice *)

\* a record as it is handed to bulk_upsert: an identifier and fields
UpsertRecord(id, fields) == [new_record("Taxonomy", 1) EXCEPT !.id = id, !.fields = fields]

\* records of two identifiers; two of the field sets give the same field another value
UpsertRecords ==
    {UpsertRecord(id, fields) :
        id \in {Str(<<"t", "m">>), Str(<<"p", "d">>)},
        fields \in {(nm.primary_com_name :> Str(<<"A", "r">>)),
                    (nm.primary_com_name :> Str(<<"Z", "z">>)),
                    (nm.category :> Str(<<"s", "p">>))}}

\* the record lists: up to MaxBatch records, repeats and repeated identifiers included
UpsertBatches == UNION {[1..n -> UpsertRecords] : n \in 0..MaxBatch}

\* the collection before: empty, and two states holding a document of one identifier
UpsertCollections ==
    {EmptyMap,
     InitDb.birds,
     (Str(<<"t", "m">>) :> (nm.primary_com_name :> Str(<<"O", "l">>)))}

InitUpsert ==
    /\ provider_type = "Taxonomy"
    /\ infile = <<>>
    /\ CHUNK_SIZE = 1
    /\ pc = "first"
    /\ header_row = <<>>
    /\ end_of_data = None
    /\ row_number = 0
    /\ chunk = <<>>
    /\ chunk_pos = 0
    /\ valid_records \in UpsertBatches
    /\ invalid_records = <<>>
    /\ db \in {[InitDb EXCEPT !.birds = c] : c \in UpsertCollections}
    /\ utcnow = 0
    /\ exc = "none"
    /\ row_record = None
    /\ log = InitLog

\* one execution of bulk_upsert(birds, valid_records): bulk.execute() applies the
\* first n operations (fewer than all: BulkWriteError, caught and logged)
executed(next_pc) ==
    \E n \in 0..Len(valid_records) :
        /\ db' = [db EXCEPT !.birds = bulk_upsert(db.birds, valid_records, n)]
        /\ log' = [log EXCEPT !.flushes =
                      Append(@, [before |-> db.birds,
                                 after |-> bulk_upsert(db.birds, valid_records, n),
                                 upserted |-> n])]
        /\ pc' = next_pc
        /\ UNCHANGED <<provider_type, infile, CHUNK_SIZE, header_row, end_of_data, row_number,
                       chunk, chunk_pos, valid_records, invalid_records, utcnow, exc,
                       row_record>>

\* the first execution
bulk_upsert_first == pc = "first" /\ executed("second")

\* the second execution, with the identical record list
bulk_upsert_second == pc = "second" /\ executed("end")

NextUpsert ==
    \/ bulk_upsert_first
    \/ bulk_upsert_second

SpecUpsert == InitUpsert /\ [][NextUpsert]_vars

-----------------------------------------------------------------------------
(* process() under a contract with an end-of-data terminator *)

\* Core files read under the Core contract and under the one with the terminator
InitEod ==
    /\ provider_type \in {"Core", "Terminated"}
    /\ infile \in Files(provider_type)
    /\ CHUNK_SIZE \in 1..MaxChunkSize
    /\ Fresh

SpecEod == InitEod /\ [][Next]_vars

-----------------------------------------------------------------------------
(* set_field_by_schema on its own: a raw cell coerced, then the stored value again *)

\* a schema with a field of each declared type; the datetime fields have a format
\* of their own, the format None (the default applies) and no format
CoerceSchema ==
    (<<"s">> :> [type |-> "string", nullable |-> TRUE, required |-> FALSE]) @@
    (<<"i">> :> [type |-> "integer", nullable |-> TRUE, required |-> FALSE]) @@
    (<<"n">> :> [type |-> "number", nullable |-> TRUE, required |-> FALSE]) @@
    (<<"f">> :> [type |-> "float", nullable |-> TRUE, required |-> FALSE]) @@
    (<<"b">> :> [type |-> "boolean", nullable |-> TRUE, required |-> FALSE]) @@
    (<<"y">> :> [type |-> "datetime", nullable |-> TRUE, required |-> FALSE,
                 datetime_format |-> Str(<<"%", "Y">>)]) @@
    (<<"m">> :> [type |-> "datetime", nullable |-> TRUE, required |-> FALSE,
                 datetime_format |-> None]) @@
    (<<"d">> :> [type |-> "datetime", nullable |-> TRUE, required |-> FALSE])

\* raw cells: empty, blank, the placeholder, integers, floats, booleans, years,
\* month-year dates, text, and text with a character outside ascii
CoerceCells ==
    {Str(<<>>), Str(<<" ">>), Str(<<"?">>),
     Str(<<"1">>), Str(<<"0">>), Str(<<" ", "1", "2", " ">>), Str(<<"-", "3">>),
     Str(<<"1", ".", "5">>), Str(<<"1", "e", "2">>), Str(<<"n", "a", "n">>), Str(<<"I", "n", "f">>),
     Str(<<"T", "r", "u", "e">>), Str(<<"f", "a", "l", "s", "e">>),
     Str(<<"2", "0", "2", "1">>), Str(<<"0", "0", "0", "0">>), Str(<<"2", "0", "2", "1", "x">>),
     Str(<<"M", "a", "r", " ", "2", "0", "2", "0">>), Str(<<"m", "a", "r", " ", " ", "2", "0", "2", "1">>),
     Str(<<"M", "a", "r", "2", "0", "2", "0">>), Str(<<"X", "y", "z", " ", "2", "0", "2", "0">>),
     Str(<<"a", "b", "c">>), Str(<<"Z", "o", "U+00EB">>)}

\* a Record with the schema, one header and one raw cell to store under it
InitCoerce ==
    /\ provider_type = "Record"
    /\ header_row \in {<<h>> : h \in DOMAIN CoerceSchema}
    /\ infile \in {<< <<c>> >> : c \in CoerceCells}
    /\ CHUNK_SIZE = 1
    /\ pc = "raw"
    /\ end_of_data = None
    /\ row_number = 0
    /\ chunk = <<>>
    /\ chunk_pos = 0
    /\ valid_records = <<>>
    /\ invalid_records = <<>>
    /\ db = InitDb
    /\ utcnow = 0
    /\ exc = "none"
    /\ row_record = new_record("Record", 0)
    /\ log = InitLog

\* set_field_by_schema(header, field) with the raw cell
set_field_by_schema_raw ==
    /\ pc = "raw"
    /\ row_record' = set_field(row_record, CoerceSchema, header_row[1], infile[1][1])
    /\ exc' = set_field_by_schema_raises(CoerceSchema, header_row[1], infile[1][1])
    /\ pc' = "coerced"
    /\ UNCHANGED <<provider_type, infile, CHUNK_SIZE, header_row, end_of_data, row_number,
                   chunk, chunk_pos, valid_records, invalid_records, db, utcnow, log>>

\* set_field_by_schema(header, value) with the value the first call stored; the
\* record as the first call left it is kept in valid_records
set_field_by_schema_stored ==
    /\ pc = "coerced"
    /\ exc = "none"
    /\ valid_records' = <<row_record>>
    /\ row_record' = set_field(row_record, CoerceSchema, header_row[1],
                               row_record.fields[header_row[1]])
    /\ exc' = set_field_by_schema_raises(CoerceSchema, header_row[1],
                                         row_record.fields[header_row[1]])
    /\ pc' = "recoerced"
    /\ UNCHANGED <<provider_type, infile, CHUNK_SIZE, header_row, end_of_data, row_number,
                   chunk, chunk_pos, invalid_records, db, utcnow, log>>

NextCoerce ==
    \/ set_field_by_schema_raw
    \/ set_field_by_schema_stored

SpecCoerce == InitCoerce /\ [][NextCoerce]_vars

-----------------------------------------------------------------------------
(* Files whose rows differ in the identifier cells *)

\* files of one data row under a header that names the identifier column twice,
\* then a string column: each identifier cell is plain, padded with whitespace,
\* empty, whitespace only, or holds a character outside ascii
IdentFiles(t) ==
    {<< <<Str(id_header(t)), Str(id_header(t)),
          Str(IF t = "Taxonomy" THEN nm.primary_com_name ELSE nm.loc_id)>>,
        <<first, second, Str(<<"A", "r">>)>> >> :
        first, second \in {Str(<<"T", "m">>), Str(<<" ", "T", "m", " ">>), Str(<<>>),
                           Str(<<" ">>), Str(<<"Z", "o", "U+00EB">>)}}

InitIdent ==
    /\ provider_type \in TYPES
    /\ infile \in IdentFiles(provider_type)
    /\ CHUNK_SIZE \in 1..MaxChunkSize
    /\ Fresh

\* process() over the files of identifier cells
SpecIdent == InitIdent /\ [][Next]_vars

-----------------------------------------------------------------------------
(* process() with one row to a chunk and with the whole file in one chunk *)

\* the files of the three contracts, read with a chunk size of one row and with a
\* chunk size that takes the header and every data row together
InitChunk ==
    /\ provider_type \in TYPES
    /\ infile \in Files(provider_type)
    /\ CHUNK_SIZE \in {1, MaxDataRows + 1}
    /\ Fresh

SpecChunk == InitChunk /\ [][Next]_vars

-----------------------------------------------------------------------------
(* Properties *)

\* process() has returned or raised
RunEnded == pc \in {"done", "aborted"}

\* the cells of the row numbered r (zero-based; row 0 is the header)
cells(r) == infile[r + 1]

\* the row numbers of the data rows
DataRows == 1..(Len(infile) - 1)

\* the entries of log.rows for the row numbered r
handled(r) == {i \in DOMAIN log.rows : log.rows[i].row = r}

\* the valid and invalid batches of chunk c: those flushed, or those being filled
valid_batch(c) == IF c <= Len(log.flushes) THEN log.flushes[c].valid ELSE valid_records

invalid_batch(c) == IF c <= Len(log.flushes) THEN log.flushes[c].invalid ELSE invalid_records

\* chunk c was flushed and both writes went through
written(c) ==
    /\ c <= Len(log.flushes)
    /\ ~log.flushes[c].raised
    /\ log.flushes[c].upserted = Len(log.flushes[c].valid)
    /\ log.flushes[c].inserted = Len(log.flushes[c].invalid)

\* every row of the file was handled once and every chunk was flushed once, in order
all_rows_flushed ==
    /\ \A r \in DataRows : Cardinality(handled(r)) = 1
    /\ \A r \in DataRows :
          Cardinality({c \in DOMAIN log.yielded :
                          \E i \in DOMAIN log.yielded[c] : log.yielded[c][i] = r}) = 1
    /\ Len(log.flushes) = Len(log.yielded)
    /\ \A c \in DOMAIN log.flushes : log.flushes[c].chunk = c

\* the record of the row just handled is a Taxonomy one that create() refused for its length
malformed_row_handled ==
    /\ provider_type = "Taxonomy"
    /\ row_record # None
    /\ row_record.exc = "InvalidRecordLength"

\* C1: in a Taxonomy file, a data row whose cell count differs from the header's is
\* left out of both batches and does not abort the run: no TypeError ends it, and
\* when process() is over every row was handled and every chunk flushed.
C1_MalformedRowDoesNotAbort ==
    malformed_row_handled =>
        /\ exc # "TypeError"
        /\ \A i \in DOMAIN valid_records : valid_records[i].row_count # row_record.row_count
        /\ (RunEnded /\ exc # "PyMongoError") => all_rows_flushed

\* C2: for a file with more data rows than the chunk size, when process() is over
\* every data row was in exactly one chunk, every chunk was flushed exactly once, and
\* the rows that ended valid, invalid or skipped are as many as the data rows.
C2_EveryRowInOneChunk ==
    (RunEnded /\ Len(infile) - 1 > CHUNK_SIZE /\ exc \notin {"PyMongoError", "InvalidFileFormat"}) =>
        /\ all_rows_flushed
        /\ Cardinality({i \in DOMAIN log.rows : log.rows[i].row >= 1}) = Len(infile) - 1

\* the record of the row just handled came out of create() with no identifier
no_identifier ==
    /\ row_record # None
    /\ row_record.exc = "none"
    /\ row_record.id = None

\* C3: for every variant and row, a record that create() left without an identifier
\* fails validate() whatever its other fields hold, process_row does not return it
\* as valid, and no valid batch ever holds a record without an identifier.
C3_NoIdentifierNeverValid ==
    /\ no_identifier =>
          /\ ~validate(row_record).ok
          /\ process_created(provider_type, row_record, utcnow).valid = None
    /\ \A i \in DOMAIN valid_records : valid_records[i].id # None
    /\ \A c \in DOMAIN log.flushes :
          \A i \in DOMAIN log.flushes[c].valid : log.flushes[c].valid[i].id # None

\* a row without an identifier whose other fields all pass the schema was routed to
\* the invalid batch
C3_Witness ==
    /\ no_identifier
    /\ validate_without_id_check(row_record).ok
    /\ \E i \in handled(row_record.row_count) : log.rows[i].outcome = "invalid"

\* a Taxonomy file under the header sci_name,primary_com_name
TaxonomyFile ==
    /\ provider_type = "Taxonomy"
    /\ header_row = <<nm.sci_name, nm.primary_com_name>>

\* a two-cell row with a sci_name and a primary_com_name that is neither blank nor '?'
named(r) ==
    /\ Len(cells(r)) = 2
    /\ ~is_empty_str(cells(r)[1])
    /\ ~is_empty_str(cells(r)[2])
    /\ cells(r)[2] # Str(<<"?">>)

\* a two-cell row with a blank sci_name and some non-empty cell
unnamed(r) ==
    /\ Len(cells(r)) = 2
    /\ is_empty_str(cells(r)[1])
    /\ any_cell(cells(r))

\* the valid batch of chunk c holds one record for row r, keyed by the lower-cased
\* sci_name and carrying the name
one_valid_record(r, c) ==
    /\ Cardinality({j \in DOMAIN valid_batch(c) : valid_batch(c)[j].row_count = r}) = 1
    /\ \A j \in DOMAIN valid_batch(c) :
          valid_batch(c)[j].row_count = r =>
              /\ valid_batch(c)[j].id = Str(lower(cells(r)[1].str))
              /\ valid_batch(c)[j].fields[nm.primary_com_name] = cells(r)[2]

\* the invalid batch of chunk c holds one record for row r, tagged TaxonomyRecord
one_invalid_record(r, c) ==
    /\ Cardinality({j \in DOMAIN invalid_batch(c) :
                       invalid_batch(c)[j].fields[nm.RowNum] = [int |-> r]}) = 1
    /\ \A j \in DOMAIN invalid_batch(c) :
          invalid_batch(c)[j].fields[nm.RowNum] = [int |-> r] =>
              invalid_batch(c)[j].fields[nm.RecordType] = Str(nm.TaxonomyRecord)

\* the invalid-record collection holds a document for row r, tagged TaxonomyRecord
invalid_document(r) ==
    \E k \in DOMAIN db.invalidRecords :
        /\ db.invalidRecords[k][nm.RowNum] = [int |-> r]
        /\ db.invalidRecords[k][nm.RecordType] = Str(nm.TaxonomyRecord)

\* C4 (amended): under the header sci_name,primary_com_name, every data row handled
\* that has two cells, a non-blank sci_name and a primary_com_name neither blank
\* nor '?' gives one record of its chunk's valid batch, keyed by the lower-cased
\* sci_name, and a document under that key once the chunk's upsert went through;
\* every data row handled that has two cells, a blank sci_name and a non-empty
\* cell gives exactly one invalid record with RecordType 'TaxonomyRecord' and
\* RowNum the row's zero-based index, inserted once the chunk's insert went through.
C4_TaxonomyRowsRouted ==
    TaxonomyFile =>
        \A i \in DOMAIN log.rows :
            /\ (log.rows[i].row >= 1 /\ named(log.rows[i].row)) =>
                  /\ log.rows[i].outcome = "valid"
                  /\ one_valid_record(log.rows[i].row, log.rows[i].chunk)
                  /\ written(log.rows[i].chunk) =>
                        /\ Str(lower(cells(log.rows[i].row)[1].str)) \in DOMAIN db.birds
                        /\ nm.primary_com_name \in
                              DOMAIN db.birds[Str(lower(cells(log.rows[i].row)[1].str))]
            /\ (log.rows[i].row >= 1 /\ unnamed(log.rows[i].row)) =>
                  /\ log.rows[i].outcome = "invalid"
                  /\ one_invalid_record(log.rows[i].row, log.rows[i].chunk)
                  /\ written(log.rows[i].chunk) => invalid_document(log.rows[i].row)

\* the two rows 'Tm,Ar' and ',Un' were processed: one document keyed 'tm' carrying
\* the name, and one invalid record with row number 2
C4_Witness ==
    /\ TaxonomyFile
    /\ pc = "done"
    /\ log.run = 1
    /\ log.write_errors = 0
    /\ Len(infile) = 3
    /\ cells(1) = <<Str(<<"T", "m">>), Str(<<"A", "r">>)>>
    /\ cells(2) = <<Str(<<>>), Str(<<"U", "n">>)>>
    /\ db.birds[Str(<<"t", "m">>)][nm.primary_com_name] = Str(<<"A", "r">>)
    /\ Len(db.invalidRecords) = 1
    /\ invalid_document(2)

\* C4 as claimed: when a first run over a Taxonomy file has completed and no write failed,
\* every data row with a non-blank sci_name and a non-blank primary_com_name has a
\* document under the lower-cased sci_name carrying a name, and every data row with
\* a blank sci_name has exactly one invalid-record document with its row number.
C4_AsClaimed ==
    (TaxonomyFile /\ pc = "done" /\ log.run = 1 /\ log.write_errors = 0) =>
        \A r \in DataRows :
            /\ (Len(cells(r)) >= 2 /\ ~is_empty_str(cells(r)[1]) /\ ~is_empty_str(cells(r)[2])) =>
                  /\ Str(lower(cells(r)[1].str)) \in DOMAIN db.birds
                  /\ nm.primary_com_name \in DOMAIN db.birds[Str(lower(cells(r)[1].str))]
            /\ is_empty_str(cells(r)[1]) =>
                  Cardinality({k \in DOMAIN db.invalidRecords :
                                  db.invalidRecords[k][nm.RowNum] = [int |-> r]}) = 1

\* the record of the row just handled is a Checklist one that create() finished
checklist_created ==
    /\ row_record # None
    /\ row_record.kind = "Checklist"
    /\ row_record.exc = "none"

\* a parsed coordinate that is a number within [low, high]
within(x, low, high) ==
    /\ x # None
    /\ "flt" \in DOMAIN x
    /\ ~FltLT(x, float_of_int(low))
    /\ ~FltLT(float_of_int(high), x)

\* both coordinates are present and within the ranges of longitude and latitude
coordinates_in_range(c) == within(c[1], -180, 180) /\ within(c[2], -90, 90)

\* both coordinates were parsed to numbers and one is outside its range
coordinates_out_of_range(c) ==
    /\ c[1] # None /\ c[2] # None
    /\ "flt" \in DOMAIN c[1] /\ "flt" \in DOMAIN c[2]
    /\ ~coordinates_in_range(c)

\* the year and day of the record are integers that name no day of the calendar
no_such_date(rec) ==
    /\ nm.year \in DOMAIN rec.fields /\ IsInt(rec.fields[nm.year])
    /\ nm.day \in DOMAIN rec.fields /\ IsInt(rec.fields[nm.day])
    /\ \/ rec.fields[nm.year].int < MINYEAR
       \/ rec.fields[nm.year].int > MAXYEAR
       \/ rec.fields[nm.day].int < 1
       \/ rec.fields[nm.day].int > DaysInYear(rec.fields[nm.year].int)

\* year, month and day of the record are integers, and year and day name a day
has_year_month_day(rec) ==
    /\ \A k \in {nm.year, nm.month, nm.day} : k \in DOMAIN rec.fields /\ IsInt(rec.fields[k])
    /\ ~no_such_date(rec)

\* the invalid-record collection holds a MigrationChecklistRecord document for row r
invalid_checklist_document(r) ==
    \E k \in DOMAIN db.invalidRecords :
        /\ db.invalidRecords[k][nm.RowNum] = [int |-> r]
        /\ db.invalidRecords[k][nm.RecordType] = Str(nm.MigrationChecklistRecord)

C6_LocFollowsCoordinates ==
    checklist_created =>
        IF coordinates_in_range(row_record.coordinates)
        THEN row_record.fields[nm.loc] = Point(row_record.coordinates)
        ELSE row_record.fields[nm.loc] = None

\* C7: for a Checklist row (here one with coordinates in range) whose year and
\* day-of-year form no calendar date, no exception leaves create() and the date
\* field of the record is null.
C7_InvalidDateIsNull ==
    (row_record # None /\ row_record.kind = "Checklist" /\ no_such_date(row_record)
        /\ coordinates_in_range(row_record.coordinates)) =>
        /\ row_record.exc = "none"
        /\ row_record.fields[nm.date] = None

\* the two executions of bulk_upsert are over
BothExecuted == pc = "end"

\* C8 (amended): when both executions of bulk_upsert apply every operation, the
\* second leaves the collection as the first left it; and a second execution that
\* applies every operation leaves what one complete execution on the original
\* collection leaves, however far the first got.
C8_SecondExecutionChangesNothing ==
    BothExecuted =>
        /\ (log.flushes[1].upserted = Len(valid_records)
               /\ log.flushes[2].upserted = Len(valid_records)) =>
              log.flushes[2].after = log.flushes[1].after
        /\ log.flushes[2].upserted = Len(valid_records) =>
              log.flushes[2].after =
                  bulk_upsert(log.flushes[1].before, valid_records, Len(valid_records))

\* two records of one identifier that set the same field were executed twice,
\* completely, over a collection that held the identifier, and changed it
C8_Witness ==
    /\ BothExecuted
    /\ Len(valid_records) = 2
    /\ valid_records[1].id = valid_records[2].id
    /\ valid_records[1].fields # valid_records[2].fields
    /\ DOMAIN valid_records[1].fields = DOMAIN valid_records[2].fields
    /\ log.flushes[1].upserted = 2
    /\ log.flushes[2].upserted = 2
    /\ log.flushes[1].after # log.flushes[1].before
    /\ valid_records[1].id \in DOMAIN log.flushes[1].before

\* C8 as claimed: the second execution leaves the collection in the state it had
\* after the first, for every collection, record list and outcome of the writes.
C8_AsClaimed == BothExecuted => log.flushes[2].after = log.flushes[1].after

\* C9 (amended): when a re-run over the same file is over and no batch write has
\* failed, both document collections hold what they held after the first run, and
\* the invalid-record collection holds the invalid records of the file once per
\* run: each run appends the same records again, equal but for their Date.
C9_RerunAppendsInvalidRecords ==
    (RunEnded /\ log.run >= 2 /\ log.write_errors = 0) =>
        /\ db.birds = log.first_db.birds
        /\ db.migrations = log.first_db.migrations
        /\ Len(db.invalidRecords) = log.run * Len(log.first_db.invalidRecords)
        /\ \A i \in DOMAIN db.invalidRecords :
              \A k \in {nm.Errors, nm.RecordType, nm.RowNum} :
                  db.invalidRecords[i][k] =
                      log.first_db.invalidRecords
                          [((i - 1) % Len(log.first_db.invalidRecords)) + 1][k]
        /\ \A i, j \in DOMAIN db.invalidRecords :
              i # j => db.invalidRecords[i][nm.Date] # db.invalidRecords[j][nm.Date]

\* a file with a valid and an invalid row was processed twice with no write failing
C9_Witness ==
    /\ pc = "done"
    /\ log.run = 2
    /\ log.write_errors = 0
    /\ Len(log.first_db.invalidRecords) > 0
    /\ log.first_db[collection_name(provider_type)] # InitDb[collection_name(provider_type)]
    /\ Len(db.invalidRecords) = 2 * Len(log.first_db.invalidRecords)

\* C9 as claimed: after a second complete run over the same file, with no write
\* failing, every collection holds the documents it held after the first run.
C9_AsClaimed ==
    (pc = "done" /\ log.run >= 2 /\ log.write_errors = 0) => db = log.first_db

\* C10: a step in which a batch write fails attempts the flush of its chunk once
\* and does not abort the run.
C10_WriteFailureDoesNotAbort ==
    [][log'.write_errors > log.write_errors =>
          /\ pc' # "aborted"
          /\ Len(log'.flushes) = Len(log.flushes) + 1]_vars


-----------------------------------------------------------------------------
(* The precondition of run() *)

\* nothing of the reader has moved in this run and nothing was written in it
reader_untouched ==
    /\ header_row = <<>>
    /\ end_of_data = None
    /\ row_number = 0
    /\ log.yielded = <<>>
    /\ log.rows = <<>>
    /\ log.flushes = <<>>

\* C11: a Checklist run that finds the taxonomy collection empty ends in
\* MissingRecords before the scanner has read a row, and that step and that run
\* write nothing to any collection; with any other type or a non-empty taxonomy
\* collection run() goes on to process().
C11_ChecklistNeedsTaxonomy ==
    /\ [](provider_type = "Checklist" /\ DOMAIN db.birds = {}
             => /\ pc \in {"run", "aborted"}
                /\ reader_untouched
                /\ pc = "aborted" => exc = "MissingRecords")
    /\ [](exc = "MissingRecords"
             => provider_type = "Checklist" /\ DOMAIN db.birds = {} /\ reader_untouched)
    /\ [][pc = "run"
            => /\ db' = db
               /\ IF provider_type = "Checklist" /\ DOMAIN db.birds = {}
                  THEN pc' = "aborted" /\ exc' = "MissingRecords"
                  ELSE pc' = "start" /\ exc' = "none"]_vars

\* a Checklist run, and its rerun, have ended in MissingRecords
C11_Witness ==
    /\ provider_type = "Checklist"
    /\ Len(infile) > 1
    /\ pc = "aborted"
    /\ exc = "MissingRecords"
    /\ log.run = MaxRuns
    /\ db.migrations = InitDb.migrations
    /\ db.invalidRecords = <<>>


-----------------------------------------------------------------------------
(* The order of the chunk flushes *)

\* the orders in which n flushes can be applied
Orders(n) == {order \in [1..n -> 1..n] : \A i, j \in 1..n : order[i] = order[j] => i = j}

\* the collection after the first k flushes of the order: each the ordered bulk
\* upsert of its chunk's valid batch, as far as that write got in the run
RECURSIVE flush_in_order(_, _, _, _)
flush_in_order(collection, flushes, order, k) ==
    IF k = 0 THEN collection
    ELSE bulk_upsert(flush_in_order(collection, flushes, order, k - 1),
                     flushes[order[k]].valid, flushes[order[k]].upserted)

\* the target collection had the run's flushes been applied in this order
reordered(order) ==
    flush_in_order(log.start_db[collection_name(provider_type)], log.flushes, order,
                   Len(log.flushes))

\* the identifiers a flush writes
flush_ids(f) == {f.valid[i].id : i \in 1..Len(f.valid)}

\* no identifier occurs in the valid batches of two chunks
chunks_disjoint ==
    \A i, j \in 1..Len(log.flushes) :
        i # j => flush_ids(log.flushes[i]) \cap flush_ids(log.flushes[j]) = {}

\* C12: after a run that flushed every chunk, applying the same flushes in any
\* other order gives the same documents when no identifier occurs in the valid
\* batches of two chunks, and in every case the same set of identifiers.
C12_DisjointChunksCommute ==
    pc = "done" =>
        \A order \in Orders(Len(log.flushes)) :
            /\ DOMAIN reordered(order) = DOMAIN db[collection_name(provider_type)]
            /\ chunks_disjoint => reordered(order) = db[collection_name(provider_type)]

\* two chunks of a run wrote different identifiers, with no write failing
C12_Witness ==
    /\ pc = "done"
    /\ log.write_errors = 0
    /\ chunks_disjoint
    /\ \E i, j \in 1..Len(log.flushes) :
          /\ i < j
          /\ flush_ids(log.flushes[i]) # {}
          /\ flush_ids(log.flushes[j]) # {}
    /\ db[collection_name(provider_type)] # log.start_db[collection_name(provider_type)]

\* C12 as the claim has it: every order of the flushes gives the same collection,
\* also when an identifier occurs in rows of different chunks
C12_AsClaimed ==
    pc = "done" /\ log.run = 1 /\ log.write_errors = 0 =>
        \A order \in Orders(Len(log.flushes)) :
            reordered(order) = db[collection_name(provider_type)]


-----------------------------------------------------------------------------
(* The header row *)

\* the scan has run in this run
scanned == pc \notin {"run", "start"} /\ exc # "MissingRecords"

\* every cell of the line is empty or whitespace
blank_line(line) == \A i \in 1..Len(line) : \A j \in 1..Len(line[i].str) : line[i].str[j] \in WHITESPACE

\* C13: once the scan has run on a file that has a row at the header index: if
\* that row has no non-blank cell the run has ended in InvalidFileFormat with no
\* header stored, no row handled and nothing written; otherwise there is no such
\* error and the stored header is that row's cells, trimmed and lower-cased, in
\* column order.
C13_BlankHeaderIsStructuralError ==
    scanned /\ Len(infile) > header_position(provider_type) =>
        IF blank_line(infile[header_position(provider_type) + 1])
        THEN /\ pc = "aborted"
             /\ exc = "InvalidFileFormat"
             /\ header_row = <<>>
             /\ log.yielded = <<>>
             /\ log.rows = <<>>
             /\ log.flushes = <<>>
             /\ db = log.start_db
        ELSE /\ exc # "InvalidFileFormat"
             /\ Len(header_row) = Len(infile[header_position(provider_type) + 1])
             /\ \A i \in 1..Len(header_row) :
                   header_row[i] = lower(strip(infile[header_position(provider_type) + 1][i].str))

\* a file with a blank header and data rows has ended the run, and its rerun, in
\* InvalidFileFormat
C13_Witness ==
    /\ exc = "InvalidFileFormat"
    /\ Len(infile) = 1 + MaxDataRows
    /\ \E i \in 1..Len(infile[1]) : infile[1][i].str # <<>>
    /\ log.run = MaxRuns


-----------------------------------------------------------------------------
(* Rows of the wrong length in the wide variants *)

\* the row the last record was built from
record_row == infile[row_record.row_count + 1]

\* C14: in a Checklist or Core run, a row whose cell count differs from the
\* header's, in either direction, makes create() raise nothing on account of its
\* length, and the run is not ended by it.
C14_WideRowsOfAnyLength ==
    /\ provider_type \in {"Checklist", "Core"}
    /\ row_record # None
    /\ Len(record_row) # Len(header_row)
    => /\ row_record.exc \notin {"IndexError", "InvalidRecordLength"}
       /\ ~(pc = "aborted" /\ exc \in {"IndexError", "TypeError"})


-----------------------------------------------------------------------------
(* Coercion *)

\* the declared type of the header being coerced
coerced_type == CoerceSchema[header_row[1]].type

\* C15: for every declared type and every raw cell, set_field_by_schema returns
\* without raising and stores under the header either a value of the declared
\* type or null; a cell that is text stores null for every type but string.
C15_CoercionIsTotal ==
    pc = "coerced" =>
        /\ exc = "none"
        /\ header_row[1] \in DOMAIN row_record.fields
        /\ \/ row_record.fields[header_row[1]] = None
           \/ type_ok(coerced_type, row_record.fields[header_row[1]])
        /\ infile[1][1] = Str(<<"a", "b", "c">>) /\ coerced_type # "string"
              => row_record.fields[header_row[1]] = None

\* C16: for every declared type, set_field_by_schema applied to the value an
\* earlier call stored returns without raising and stores the same value.
C16_CoercionIsIdempotent ==
    pc = "recoerced" =>
        /\ exc = "none"
        /\ row_record.fields = valid_records[1].fields


-----------------------------------------------------------------------------
(* Routing of the created records *)

\* the record of the row just handled came out of create() without an exception
record_created == row_record # None /\ row_record.exc = "none"

\* the places of the valid batch of chunk c that hold the record of row r
valid_from(c, r) == {k \in DOMAIN valid_batch(c) : valid_batch(c)[k].row_count = r}

\* the places of the invalid batch of chunk c that hold an Invalid Record of row r
invalid_from(c, r) ==
    {k \in DOMAIN invalid_batch(c) : invalid_batch(c)[k].fields[nm.RowNum] = [int |-> r]}

\* C17: a row whose record was created is handled once; if the record fails
\* validate() its chunk's invalid batch holds exactly one Invalid Record of the
\* row and no valid batch holds its record, if it passes its chunk's valid batch
\* holds exactly its one record and no invalid batch holds anything of the row;
\* the row does not end the run.
C17_CreatedRowInOneBatch ==
    record_created =>
        /\ Cardinality(handled(row_record.row_count)) = 1
        /\ IF validate(row_record).ok
           THEN \A i \in handled(row_record.row_count) :
                   /\ log.rows[i].outcome = "valid"
                   /\ \A c \in DOMAIN log.yielded :
                         /\ Cardinality(valid_from(c, row_record.row_count)) =
                               (IF c = log.rows[i].chunk THEN 1 ELSE 0)
                         /\ invalid_from(c, row_record.row_count) = {}
           ELSE \A i \in handled(row_record.row_count) :
                   /\ log.rows[i].outcome = "invalid"
                   /\ \A c \in DOMAIN log.yielded :
                         /\ valid_from(c, row_record.row_count) = {}
                         /\ Cardinality(invalid_from(c, row_record.row_count)) =
                               (IF c = log.rows[i].chunk THEN 1 ELSE 0)
        /\ pc = "aborted" => exc = "PyMongoError"

\* a run has put one row's record in a valid batch and another row's Invalid
\* Record in an invalid batch, and has gone on to the end
C17_Witness ==
    /\ pc = "done"
    /\ record_created
    /\ \E i, j \in DOMAIN log.rows :
          /\ log.rows[i].outcome = "invalid"
          /\ log.rows[j].outcome = "valid"
          /\ log.rows[i].row < log.rows[j].row
    /\ \E c, d \in DOMAIN log.flushes :
          Len(log.flushes[c].valid) = 1 /\ Len(log.flushes[d].invalid) = 1


-----------------------------------------------------------------------------
(* Rows that process_row skips *)

\* no batch of the run holds anything of row r
in_no_batch(r) ==
    \A c \in DOMAIN log.yielded : valid_from(c, r) = {} /\ invalid_from(c, r) = {}

\* what process_row returns for a row it skips
skipped_row == [ret |-> "pair", valid |-> None, invalid |-> None, record |-> None]

\* C18: a row below the contract's data-start position, a row at the end-of-data
\* index and a row whose cells are all empty strings are skipped: process_row
\* builds no record and returns [None, None], and no batch holds anything of the
\* row.  A row of whitespace cells that are not all empty is not skipped.
C18_SkippedRows ==
    scanned /\ exc # "InvalidFileFormat" =>
        /\ \A i \in DOMAIN log.rows :
              /\ \/ log.rows[i].row < data_position(provider_type)
                 \/ [int |-> log.rows[i].row] = end_of_data
                 \/ \A k \in DOMAIN cells(log.rows[i].row) : cells(log.rows[i].row)[k].str = <<>>
                 => log.rows[i].outcome = "skipped" /\ in_no_batch(log.rows[i].row)
              /\ /\ log.rows[i].row >= data_position(provider_type)
                 /\ \E k \in DOMAIN cells(log.rows[i].row) : cells(log.rows[i].row)[k].str # <<>>
                 => log.rows[i].outcome # "skipped"
        /\ \A r \in 0..(Len(infile) - 1) :
              pc = "done" =>
              /\ process_row(provider_type, header_row, [int |-> r], r, cells(r), utcnow)
                    = skipped_row
              /\ r < data_position(provider_type)
                    => process_row(provider_type, header_row, end_of_data, r, cells(r), utcnow)
                          = skipped_row

\* a run has ended that skipped the header row and a data row of empty cells
C18_Witness ==
    /\ pc = "done"
    /\ \E i, j \in DOMAIN log.rows :
          /\ log.rows[i].row = 0
          /\ log.rows[i].outcome = "skipped"
          /\ log.rows[j].row >= data_position(provider_type)
          /\ log.rows[j].outcome = "skipped"
          /\ in_no_batch(log.rows[j].row)

\* C18 as the claim has it: every row of blank cells is skipped
C18_AsClaimed ==
    scanned /\ exc # "InvalidFileFormat" =>
        \A i \in DOMAIN log.rows :
            blank_line(cells(log.rows[i].row)) =>
                log.rows[i].outcome = "skipped" /\ in_no_batch(log.rows[i].row)


-----------------------------------------------------------------------------
(* The end of the data *)

\* the rows r - n + 1 .. r are n blank rows
blank_run(r, n) == r - n + 1 >= 0 /\ \A q \in (r - n + 1)..r : blank_line(cells(q))

\* the end of the data as the terminator rule has it: the first row index at
\* which n blank rows have been counted, the number of rows when there is none
end_of_blank_run(n) ==
    IF n > 0 /\ \E r \in 0..(Len(infile) - 1) : blank_run(r, n)
    THEN CHOOSE r \in 0..(Len(infile) - 1) :
            blank_run(r, n) /\ \A q \in 0..(r - 1) : ~blank_run(q, n)
    ELSE Len(infile)

\* C19: once the scan has run on a file with a header, end_of_data is the row
\* index at which the count of blank rows first reached the contract's N when
\* N > 0 and the number of rows when N = 0, the scan has raised nothing, and the
\* main pass begins at row 0.
C19_EndOfData ==
    scanned /\ exc # "InvalidFileFormat" =>
        /\ exc # "NameError"
        /\ end_of_data = [int |-> end_of_blank_run(num_empty_rows_eod(provider_type))]
        /\ log.yielded # <<>> /\ log.yielded[1] # <<>> => log.yielded[1][1] = 0


-----------------------------------------------------------------------------
(* Columns outside the map in the wide variants *)

\* the columns of the last record's row whose header is not in the contract's map
unmapped_columns ==
    {k \in 1..Len(header_row) :
        k <= Len(record_row) /\ map_header(provider_type, header_row[k]) = None}

\* C20: in a Checklist or Core run, a row with a cell under a header that is not
\* in the contract's map gives a record that holds a field under that column's
\* name, a number or null; create() raises nothing for the column.
C20_UnmappedColumnsKept ==
    provider_type \in {"Checklist", "Core"} /\ row_record # None =>
        \A k \in unmapped_columns :
            /\ row_record.exc # "AttributeError"
            /\ header_row[k] \in DOMAIN row_record.fields
            /\ \/ row_record.fields[header_row[k]] = None
               \/ IsInt(row_record.fields[header_row[k]])
               \/ IsFloat(row_record.fields[header_row[k]])


-----------------------------------------------------------------------------
(* String fields *)

\* C21: for a string-typed field, set_field_by_schema returns and stores null
\* when the raw cell is blank or is the placeholder '?', and otherwise stores
\* the cell with its leading and trailing whitespace removed.
C21_StringStoredTrimmed ==
    pc = "coerced" /\ coerced_type = "string" =>
        /\ exc = "none"
        /\ header_row[1] \in DOMAIN row_record.fields
        /\ row_record.fields[header_row[1]] =
              (IF strip(infile[1][1].str) = <<>> \/ infile[1][1] = Str(<<"?">>)
               THEN None
               ELSE Str(strip(infile[1][1].str)))


-----------------------------------------------------------------------------
(* The identifier column *)

\* the columns of the header that map to the identifier field
id_columns == {k \in 1..Len(header_row) : header_row[k] = id_header(provider_type)}

\* the identifier the claim gives a row: that of the last non-blank identifier cell,
\* trimmed (and lower-cased for Taxonomy), None when every such cell is blank
RECURSIVE trimmed_id(_, _)
trimmed_id(row, k) ==
    IF k = 0 THEN None
    ELSE IF k \in id_columns /\ k <= Len(row) /\ strip(row[k].str) # <<>>
    THEN Str(IF provider_type = "Taxonomy" THEN lower(strip(row[k].str)) ELSE strip(row[k].str))
    ELSE trimmed_id(row, k - 1)

\* C22: create() raises nothing for an identifier cell; the record's identifier is
\* the last non-blank identifier cell with the surrounding whitespace trimmed
\* (lower-cased as well for Taxonomy), a blank cell leaves the identifier as it
\* was, and the identifier column is not a field of the record.
C22_IdentifierTrimmed ==
    row_record # None /\ id_columns # {} =>
        /\ row_record.exc = "none"
        /\ row_record.id = trimmed_id(cells(row_record.row_count), Len(header_row))
        /\ id_header(provider_type) \notin DOMAIN row_record.fields


-----------------------------------------------------------------------------
(* The detail an Invalid Record carries *)

\* the detail explains the failure: it names a schema violation and holds the
\* serialized snapshot of the fields of rec
explains(detail, rec) ==
    /\ nm.fields \in DOMAIN detail
    /\ detail[nm.fields] = to_json(rec)
    /\ DOMAIN detail \ {nm.fields} # {}

\* C23: for the record of a row that fails validate(), also one that fails only for
\* want of an identifier, validation_errors() returns the schema violations
\* together with the snapshot of the fields, and every Invalid Record queued has
\* a non-empty error payload, a capture timestamp and the record-type name.
C23_InvalidRecordExplains ==
    /\ record_created /\ ~validate(row_record).ok =>
          explains(validation_errors(validate(row_record).rec), row_record)
    /\ \A k \in DOMAIN invalid_records :
          /\ invalid_records[k].fields[nm.Date] # None
          /\ invalid_records[k].fields[nm.RecordType] = Str(record_name(provider_type))
          /\ DOMAIN invalid_records[k].fields[nm.Errors].dict # {}


-----------------------------------------------------------------------------
(* The order of the flushes *)

\* the row numbers of chunk c
rows_of(c) == {log.yielded[c][i] : i \in DOMAIN log.yielded[c]}

\* the row numbers the records of the batches of chunk c came from
batch_rows(c) ==
    {valid_batch(c)[k].row_count : k \in DOMAIN valid_batch(c)} \cup
    {invalid_batch(c)[k].fields[nm.RowNum].int : k \in DOMAIN invalid_batch(c)}

\* C24: chunks are flushed in file order and never twice, and a run that completes
\* has flushed every chunk once; when chunk c is flushed every row of it has been
\* transformed, and a row of chunk c + 1 is transformed only after that flush;
\* syncprocess_chunk starts every chunk with empty accumulators, so the batches
\* of a chunk hold records of its own rows only and no record is flushed with
\* two chunks.
C24_FlushedInFileOrder ==
    /\ \A c \in DOMAIN log.flushes : log.flushes[c].chunk = c
    /\ Len(log.yielded) - Len(log.flushes) \in {0, 1}
    /\ pc = "rows" => Len(log.flushes) = Len(log.yielded) - 1
    /\ pc \in {"read", "resume", "done"} => Len(log.flushes) = Len(log.yielded)
    /\ \A c \in DOMAIN log.flushes :
          \A r \in rows_of(c) : \E i \in DOMAIN log.rows :
              log.rows[i].row = r /\ log.rows[i].chunk = c
    /\ \A i \in DOMAIN log.rows :
          /\ log.rows[i].chunk <= Len(log.flushes) + 1
          /\ log.rows[i].row \in rows_of(log.rows[i].chunk)
    /\ pc = "rows" /\ chunk_pos = 0 => valid_records = <<>> /\ invalid_records = <<>>
    /\ \A c \in DOMAIN log.yielded : batch_rows(c) \subseteq rows_of(c)
    /\ \A c, d \in DOMAIN log.flushes : c # d => batch_rows(c) \cap batch_rows(d) = {}

\* a run has completed that flushed three chunks in turn, the second with a record
\* in a batch and the third with a record in a batch
C24_Witness ==
    /\ pc = "done"
    /\ Len(log.flushes) = 3
    /\ batch_rows(2) # {}
    /\ batch_rows(3) # {}


-----------------------------------------------------------------------------
(* What a bulk upsert leaves in the collection *)

\* the identifiers of the records of a list
ids_of(records) == {records[k].id : k \in DOMAIN records}

\* the fields the records of the list with the identifier name
named_by(records, id) ==
    UNION {DOMAIN records[k].fields : k \in {j \in DOMAIN records : records[j].id = id}}

\* the places of the list that hold a record with the identifier naming the field
naming(records, id, field) ==
    {k \in DOMAIN records : records[k].id = id /\ field \in DOMAIN records[k].fields}

\* the collection after is the collection before with the records merged into it:
\* a document for each identifier of the list, each field a record names holding
\* the value of the last record that names it, every other field of an earlier
\* document as it was, and every other document as it was
merged(before, after, records) ==
    /\ DOMAIN after = DOMAIN before \cup ids_of(records)
    /\ \A id \in DOMAIN before \ ids_of(records) : after[id] = before[id]
    /\ \A id \in ids_of(records) :
          /\ DOMAIN after[id] =
                named_by(records, id) \cup (IF id \in DOMAIN before THEN DOMAIN before[id] ELSE {})
          /\ \A field \in named_by(records, id) :
                \E k \in naming(records, id, field) :
                    /\ \A j \in naming(records, id, field) : j <= k
                    /\ after[id][field] = records[k].fields[field]
          /\ id \in DOMAIN before =>
                \A field \in DOMAIN before[id] \ named_by(records, id) :
                    after[id][field] = before[id][field]

\* C25 (amended): bulk_upsert merges the operations bulk.execute() applied, a
\* prefix of the record list in list order (the whole list when no BulkWriteError
\* stopped it): each identifier of the prefix has a document in which every
\* field a record of the prefix names holds the value of the last such record,
\* every other field of a document that was there keeps its value, and every
\* other document is unchanged; the records after the failed operation write
\* nothing.  Checklist and Core records go to the same collection.
C25_UpsertMergesApplied ==
    /\ collection_name("Checklist") = collection_name("Core")
    /\ \A e \in DOMAIN log.flushes :
          merged(log.flushes[e].before, log.flushes[e].after,
                 SubSeq(valid_records, 1, log.flushes[e].upserted))
    /\ log.flushes # <<>> => db.birds = log.flushes[Len(log.flushes)].after

\* an execution applied two records of one identifier that give a field two
\* values, to a collection whose document of that identifier had another field
C25_Witness ==
    /\ pc = "second"
    /\ Len(valid_records) = 2
    /\ log.flushes[1].upserted = 2
    /\ valid_records[1].id = valid_records[2].id
    /\ valid_records[1].id \in DOMAIN log.flushes[1].before
    /\ DOMAIN valid_records[1].fields = DOMAIN valid_records[2].fields
    /\ valid_records[1].fields # valid_records[2].fields
    /\ DOMAIN log.flushes[1].before[valid_records[1].id] \ DOMAIN valid_records[2].fields # {}
    /\ DOMAIN db.birds[valid_records[1].id] =
          DOMAIN log.flushes[1].before[valid_records[1].id] \cup DOMAIN valid_records[2].fields

\* C25 as the claim has it: after bulk_upsert has run, the whole record list is merged
C25_AsClaimed ==
    \A e \in DOMAIN log.flushes :
        merged(log.flushes[e].before, log.flushes[e].after, valid_records)


-----------------------------------------------------------------------------
(* The size and the number of the chunks *)

\* the number of chunks of a file of R rows: max(1, ceil(R / _CHUNK_SIZE))
chunks_of(R) == IF R = 0 THEN 1 ELSE (R + CHUNK_SIZE - 1) \div CHUNK_SIZE

\* the row numbers from a to b - 1, in order
row_numbers(a, b) == [i \in 1..(b - a) |-> a + i - 1]

\* the smaller of two numbers
min_of(a, b) == IF a <= b THEN a ELSE b

\* C26: the chunk gen_chunks buffers never holds more than _CHUNK_SIZE rows; the
\* c-th chunk yielded holds the consecutive file rows from (c - 1) * _CHUNK_SIZE
\* on, header row included, exactly _CHUNK_SIZE of them unless it is the last;
\* never more than max(1, ceil(R / _CHUNK_SIZE)) chunks are yielded and a run
\* that completes has yielded exactly that many; an empty file yields one
\* empty chunk, whose flush writes nothing.
C26_ChunkSizes ==
    /\ Len(chunk) <= CHUNK_SIZE
    /\ \A i \in DOMAIN chunk : chunk[i] = <<chunk[1][1] + i - 1, infile[chunk[1][1] + i]>>
    /\ \A c \in DOMAIN log.yielded :
          log.yielded[c] =
              row_numbers((c - 1) * CHUNK_SIZE, min_of(c * CHUNK_SIZE, Len(infile)))
    /\ Len(log.yielded) <= chunks_of(Len(infile))
    /\ pc = "done" => Len(log.yielded) = chunks_of(Len(infile))
    /\ pc = "done" /\ infile = <<>> =>
          /\ log.yielded = << <<>> >>
          /\ Len(log.flushes) = 1
          /\ log.flushes[1].valid = <<>> /\ log.flushes[1].invalid = <<>>
          /\ db = log.start_db

\* a run has completed on a file whose rows are not a multiple of the chunk size:
\* a full chunk that begins with the header row, then a last chunk with the rest
C26_Witness ==
    /\ pc = "done"
    /\ CHUNK_SIZE = 2
    /\ Len(infile) = 3
    /\ log.yielded = << <<0, 1>>, <<2>> >>


-----------------------------------------------------------------------------
(* What is handed to the store, and where it goes *)

\* the target collection that is not the contract's
other_collection(t) == IF collection_name(t) = "birds" THEN "migrations" ELSE "birds"

\* the step leaves the collections as a flush of the two batches may: the other
\* target collection untouched, documents of the contract's collection changed
\* or added under identifiers of the valid batch only, and the invalid-record
\* collection as it was with fields of the invalid batch, in order, after it
writes_in_place ==
    /\ db'[other_collection(provider_type)] = db[other_collection(provider_type)]
    /\ \A id \in DOMAIN db'[collection_name(provider_type)] :
          \/ /\ id \in DOMAIN db[collection_name(provider_type)]
             /\ db'[collection_name(provider_type)][id] = db[collection_name(provider_type)][id]
          \/ \E k \in DOMAIN valid_records : valid_records[k].id = id
    /\ DOMAIN db[collection_name(provider_type)] \subseteq DOMAIN db'[collection_name(provider_type)]
    /\ Len(db'.invalidRecords) >= Len(db.invalidRecords)
    /\ \A k \in DOMAIN db'.invalidRecords :
          db'.invalidRecords[k] =
              (IF k <= Len(db.invalidRecords) THEN db.invalidRecords[k]
               ELSE invalid_records[k - Len(db.invalidRecords)].fields)

\* C27: every record of a valid batch, and so every record handed to bulk_upsert,
\* has an identifier and passes validate(); no document is stored under a null
\* _id; every step of process() that changes the store writes valid records to
\* the contract's collection only and Invalid Records to the invalid-record
\* collection only, which only grows at its end.
C27_OnlyValidatedRecordsUpserted ==
    /\ [](\A c \in DOMAIN log.yielded : \A k \in DOMAIN valid_batch(c) :
              /\ valid_batch(c)[k].id # None
              /\ validate(valid_batch(c)[k]).ok)
    /\ [](None \notin DOMAIN db.birds /\ None \notin DOMAIN db.migrations)
    /\ [](\A c \in DOMAIN log.yielded : \A k \in DOMAIN invalid_batch(c) :
              nm.RecordType \in DOMAIN invalid_batch(c)[k].fields)
    /\ [][db' # db => writes_in_place]_vars

\* a run has completed in which one flush upserted a record under its identifier
\* and one flush inserted an Invalid Record
C27_Witness ==
    /\ pc = "done"
    /\ \E c \in DOMAIN log.flushes :
          /\ written(c)
          /\ Len(log.flushes[c].valid) = 1
          /\ log.flushes[c].valid[1].id \in DOMAIN db[collection_name(provider_type)]
          /\ log.flushes[c].valid[1].id \notin DOMAIN log.start_db[collection_name(provider_type)]
    /\ \E d \in DOMAIN log.flushes :
          /\ written(d)
          /\ Len(log.flushes[d].invalid) = 1
          /\ Len(db.invalidRecords) > Len(log.start_db.invalidRecords)


-----------------------------------------------------------------------------
(* The chunk size and the result *)

\* an Invalid Record without its capture time
undated(inv) == [f \in DOMAIN inv.fields \ {nm.Date} |-> inv.fields[f]]

\* the Invalid Records of a batch without their capture times
undated_batch(batch) == [k \in DOMAIN batch |-> undated(batch[k])]

\* the list with the element added unless it is None
with_one(list, element) == IF element = None THEN list ELSE Append(list, element)

\* the list with the Invalid Record added, undated, unless it is None
with_invalid(list, inv) == IF inv = None THEN list ELSE Append(list, undated(inv))

\* what row n - 1 adds to the records of the rows before it, when each row is
\* transformed and flushed by itself: nothing once a row has ended the run
after_row(before, result) ==
    IF before.ended THEN before
    ELSE IF result.ret # "pair" THEN [before EXCEPT !.ended = TRUE]
    ELSE [valid |-> with_one(before.valid, result.valid),
          invalid |-> with_invalid(before.invalid, result.invalid),
          ended |-> FALSE]

\* the valid records and the Invalid Records of the first n rows of the file,
\* transformed and flushed one row at a time
RECURSIVE row_by_row(_)
row_by_row(n) ==
    IF n = 0 THEN [valid |-> <<>>, invalid |-> <<>>, ended |-> FALSE]
    ELSE after_row(row_by_row(n - 1),
                   process_row(provider_type, header_row, end_of_data, n - 1, infile[n], 0))

\* the valid records and the Invalid Records of the first c flushes of the run
RECURSIVE flushed_valid(_)
flushed_valid(c) == IF c = 0 THEN <<>> ELSE flushed_valid(c - 1) \o log.flushes[c].valid

RECURSIVE flushed_invalid(_)
flushed_invalid(c) ==
    IF c = 0 THEN <<>> ELSE flushed_invalid(c - 1) \o undated_batch(log.flushes[c].invalid)

\* the first run over the file has ended after reading rows, and every write it
\* made went through
first_run_over ==
    /\ RunEnded
    /\ log.run = 1
    /\ log.write_errors = 0
    /\ exc \notin {"MissingRecords", "InvalidFileFormat"}

\* C28: whatever the chunk size, when process() is over the valid records and the
\* Invalid Records it has written are, in order, those of the file's rows
\* transformed and written one row at a time, and the target collection is the
\* one those valid records leave: what chunk size 1 gives.
C28_ChunkSizeIrrelevant ==
    first_run_over =>
        /\ flushed_valid(Len(log.flushes)) = row_by_row(Len(infile)).valid
        /\ flushed_invalid(Len(log.flushes)) = row_by_row(Len(infile)).invalid
        /\ db[collection_name(provider_type)] =
              apply_upserts(log.start_db[collection_name(provider_type)],
                            row_by_row(Len(infile)).valid,
                            Len(row_by_row(Len(infile)).valid))

=============================================================================
